---- MODULE Spec2Model ----
(***************************************************************************)
(* Model of the windsurf-endless MCP server core:                          *)
(*   - InfiniteAskPanel (src/extension/views/infiniteAskPanel.ts): the     *)
(*     confirmation sessions, their result promises and 24 h timers;       *)
(*   - the JSON-RPC dispatcher handleRequest / handleRequestWithResponse   *)
(*     and handleToolCall (src/extension/services/promptOptimizer.ts);     *)
(*   - the HTTP server lifecycle startHTTPServer / stopHTTPServer /        *)
(*     restartHTTPServer / switchTransport / checkPortAvailable.           *)
(* Every asynchronous function is cut at its await points; the code        *)
(* between two awaits runs to completion (single-threaded event loop) and  *)
(* is one action.                                                          *)
(***************************************************************************)
EXTENDS Integers, Sequences, FiniteSets, TLC

\* ---------------------------------------------------------------- bounds
MaxPanels == 2        \* confirmation sessions opened in one behaviour
MaxReq == 2           \* JSON-RPC messages received in one behaviour
MaxCalls == 2         \* lifecycle calls made in one behaviour
MaxClients == 1       \* SSE streams open at once
MaxTests == 2     \* calls of checkPortAvailable
MaxStarts == 2    \* countdowns the auto-submit manager starts
MaxRemaining == 3 \* seconds a countdown can have left
MaxCreated == 2   \* sessions the session manager creates
MaxCount == 3     \* largest absolute value of a statistics counter
MaxListeners == 1     \* callbacks passed to subscribeToServerState

Sessions == 1..MaxPanels

\* ------------------------------------------------------------- variables
VARIABLES
  panels,         \* InfiniteAskPanel.panels: the ids in the live map
  panelCounter,   \* InfiniteAskPanel.panelCounter
  sess,           \* per session: the panel object, show()'s position, timer
  reqs,           \* per received JSON-RPC message: request, position, output
  httpServer,     \* module variable httpServer: 0 (null), or the call
                  \*   whose startHTTPServer created the http.Server
  servers,        \* the http.Server each lifecycle call created, if any
  currentServerState,
  sseClients,     \* module variable sseClients (ids of registered streams)
  sseOpen,        \* the SSE streams that are open (not ended, not closed)
  serverStateListeners,   \* the callbacks in the set serverStateListeners
  delivered,      \* per callback: what it was called with so far
  sseEvents,      \* per SSE stream: the 'message' events written to it
                  \*   since it was opened (the slot each one answers)
  foreign,        \* ports held by other processes
  calls,          \* lifecycle calls: not made yet, in progress, finished
  notified,       \* the ServerState values passed to state subscribers
  stdioHandlers,  \* readline 'line' handlers installed by startStdioServer
  randomizedToolNames,            \* helper.ts: 0 (null), or the pair of
                                  \*   prefix and suffix the names are built of
  customPromptOptimizerHandler,   \* TRUE when a handler is set (not null)
  customFillInputHandler,         \* TRUE when a handler is set (not null)
  environmentConfig,              \* [isWindsurf]
  lastTool,       \* the last tools/list, tools/call or resolver call
  normalized,     \* an argument value and what normalizeArgs makes of it
  monitorState,   \* ConnectionMonitor.state
  pingInterval,   \* ConnectionMonitor.pingInterval is set (not null)
  reconnectTimeout,   \* ConnectionMonitor.reconnectTimeout and its timer
  mcpEndpoint,    \* ConnectionMonitor.mcpEndpoint is set (not null)
  probes,         \* fetches of ping() in flight
  simTimers,      \* 500 ms timers of simulatePing() pending
  aged,           \* how many of those fetches and timers were already in
                  \*   flight when the 30 s interval last fired
  monitorLog,     \* what happened to the monitor since certain calls
  testServers,    \* per call of checkPortAvailable: its testServer
  autoSubmit,     \* the AutoSubmitManager singleton and its interval timers
  sessionManager  \* the SessionManager singleton of the webview

panelVars == <<panels, panelCounter, sess>>
\* the tool registry and the pluggable handlers
toolVars == <<randomizedToolNames, customPromptOptimizerHandler,
              customFillInputHandler, environmentConfig, lastTool>>
\* what the sessions, the dispatcher and the lifecycle manager never touch
\* the webview's connection monitor
monVars == <<monitorState, pingInterval, reconnectTimeout, mcpEndpoint, probes,
             simTimers, aged, monitorLog>>
\* the port probe
laterVars == <<testServers, autoSubmit, sessionManager>>
envVars == <<foreign, toolVars, normalized, monVars, laterVars>>
\* the module state of the lifecycle manager
managerVars == <<httpServer, servers, currentServerState, sseClients, sseOpen,
                 notified, stdioHandlers, serverStateListeners, delivered,
                 sseEvents>>
\* what the handling of a message leaves alone
serverVars == <<httpServer, servers, currentServerState, sseClients, sseOpen,
                envVars, calls, notified, stdioHandlers, serverStateListeners,
                delivered>>
lifeVars == <<serverVars, sseEvents>>
vars == <<panels, panelCounter, sess, reqs, httpServer, servers,
          currentServerState, sseClients, sseOpen, foreign, calls, notified,
          stdioHandlers, serverStateListeners, delivered, sseEvents,
          randomizedToolNames, customPromptOptimizerHandler,
          customFillInputHandler, environmentConfig, lastTool, normalized,
          monitorState, pingInterval, reconnectTimeout, mcpEndpoint, probes,
          simTimers, aged, monitorLog, testServers, autoSubmit,
          sessionManager>>

\* ===================================================== InfiniteAskPanel
\* InfiniteAskResult, reduced to the two fields the callers read.
Instructions == {"none", "text"}
NegativeResult == [shouldContinue |-> FALSE, userInstruction |-> "none"]
OptimizeResult == [shouldContinue |-> TRUE, userInstruction |-> "optimize"]

\* message.data of an 'infinite_ask_response' message
ResponseData == [shouldContinue : {"true", "false", "absent"},
                 userInstruction : Instructions]

\* result built by the message handler: shouldContinue ?? false
ResultOf(data) ==
  [shouldContinue |-> (data.shouldContinue = "true"),
   userInstruction |-> data.userInstruction]

NoPromise == [st |-> "none", val |-> NegativeResult]
PendingPromise == [st |-> "pending", val |-> NegativeResult]

\* no attempt to resolve the session was made yet
NoAttempt == [by |-> "none", val |-> NegativeResult]

\* A session before show() has created it.
NoSession ==
  [phase |-> "none",            \* position of show(): none, loading,
                                \*   waiting (promise returned), threw
   resolvePromise |-> FALSE,    \* _resolvePromise is non-null
   timer |-> "none",            \* the 24 h timer: none, armed, cleared, fired
   disposed |-> FALSE,          \* the WebviewPanel is disposed
   promise |-> NoPromise,       \* the promise show() returned to its caller
   resolveCalls |-> 0,          \* invocations of the promise's resolve
   first |-> NoAttempt]         \* the first resolution attempt on the session

\* resolve(result) of the promise created at line 244: the first call
\* fulfils the promise, later calls are ignored by the promise.
Resolve(x, result) ==
  [x EXCEPT !.resolveCalls = @ + 1,
            !.promise = IF @.st = "pending"
                        THEN [st |-> "resolved", val |-> result] ELSE @]

\* the wrapper installed at lines 262-266: clearTimeout, then resolve
WrappedResolve(x, result) ==
  Resolve([x EXCEPT !.timer = IF @ = "armed" THEN "cleared" ELSE @], result)

\* one run of the body of dispose(), lines 273-292, for the panel with id s
DisposeRemoveAll(w, s) ==
  [panels |-> {},
   sess |-> [w.sess EXCEPT ![s] =
      [(IF @.resolvePromise THEN WrappedResolve(@, NegativeResult) ELSE @)
         EXCEPT !.resolvePromise = FALSE, !.disposed = TRUE]]]

DisposeBody(w, s) ==
  [panels |-> w.panels \ {s},
   sess |-> [w.sess EXCEPT ![s] =
      [(IF @.resolvePromise THEN WrappedResolve(@, NegativeResult) ELSE @)
         EXCEPT !.resolvePromise = FALSE, !.disposed = TRUE]]]

\* dispose(): this._panel.dispose() at line 284 fires onDidDispose on a
\* panel that was not disposed yet, and the listener of line 92 runs
\* dispose() once more inside the first run
Dispose(w, s) ==
  IF w.sess[s].disposed THEN DisposeBody(w, s)
  ELSE DisposeBody(DisposeBody(w, s), s)

\* the 'infinite_ask_response' / 'optimize_prompt_with_ai' branches of the
\* message handler, lines 103-117 and 170-184: resolve, forget, dispose
OnResultKeepResolver(w, s, result) ==
  LET x == w.sess[s]
      y == IF x.resolvePromise THEN WrappedResolve(x, result) ELSE x
  IN  Dispose([w EXCEPT !.sess[s] = y], s)

OnResult(w, s, result) ==
  LET x == w.sess[s]
      y == IF x.resolvePromise THEN WrappedResolve(x, result) ELSE x
  IN  Dispose([w EXCEPT !.sess[s] = [y EXCEPT !.resolvePromise = FALSE]], s)

\* the timer callback, lines 254-259: resolve directly, then dispose
OnTimeoutNoDispose(w, s) ==
  LET x == [w.sess[s] EXCEPT !.timer = "fired"]
  IN  IF x.resolvePromise
      THEN [w EXCEPT !.sess[s] = Resolve(x, NegativeResult)]
      ELSE [w EXCEPT !.sess[s] = x]

OnTimeout(w, s) ==
  LET x == [w.sess[s] EXCEPT !.timer = "fired"]
  IN  IF x.resolvePromise
      THEN Dispose([w EXCEPT !.sess[s] = Resolve(x, NegativeResult)], s)
      ELSE [w EXCEPT !.sess[s] = x]

\* show() up to its first await, lines 197-231
ShowStart(w, s) ==
  [panels |-> w.panels \cup {s},
   sess |-> [w.sess EXCEPT ![s] =
      [NoSession EXCEPT !.phase = "loading", !.promise = PendingPromise]]]

\* show() after the 500 ms delay, lines 234-267.  panel.webview of a
\* disposed panel is outside the repository: the access either throws
\* (show() rejects) or the message is dropped and show() goes on.
ShowResume(w, s, throws) ==
  LET x == w.sess[s]
  IN  IF x.disposed /\ throws
      THEN [w EXCEPT !.sess[s] =
              [x EXCEPT !.phase = "threw", !.promise.st = "rejected"]]
      ELSE [w EXCEPT !.sess[s] =
              [x EXCEPT !.phase = "waiting", !.resolvePromise = TRUE,
                        !.timer = "armed"]]

World == [panels |-> panels, sess |-> sess]

\* remember the first resolution attempt made on a session
NoteFirst(S, s, by, result) ==
  [S EXCEPT ![s].first = IF @.by = "none"
                         THEN [by |-> by, val |-> result] ELSE @]

Apply(w) == panels' = w.panels /\ sess' = w.sess

\* a caller (the popup handler or the test command) calls show()
Show ==
  /\ panelCounter < MaxPanels
  /\ panelCounter' = panelCounter + 1
  /\ Apply(ShowStart(World, panelCounter + 1))
  /\ UNCHANGED <<reqs, lifeVars>>

LoadDone(s) ==
  /\ sess[s].phase = "loading"
  /\ \E throws \in BOOLEAN : Apply(ShowResume(World, s, throws))
  /\ UNCHANGED <<panelCounter, reqs, lifeVars>>

\* the webview shows the dialog once it got the request; the user answers
UserResponse(s) ==
  /\ sess[s].phase = "waiting" /\ ~sess[s].disposed
  /\ \E data \in ResponseData :
       LET w == OnResult(World, s, ResultOf(data))
       IN  Apply([w EXCEPT !.sess =
                    NoteFirst(@, s, "response", ResultOf(data))])
  /\ UNCHANGED <<panelCounter, reqs, lifeVars>>

AiOptimize(s) ==
  /\ sess[s].phase = "waiting" /\ ~sess[s].disposed
  /\ LET w == OnResult(World, s, OptimizeResult)
     IN  Apply([w EXCEPT !.sess = NoteFirst(@, s, "optimize", OptimizeResult)])
  /\ UNCHANGED <<panelCounter, reqs, lifeVars>>

\* the editor disposes the panel (tab closed, window torn down) and the
\* onDidDispose listener of line 92 runs dispose()
PanelClosed(s) ==
  /\ sess[s].phase \in {"loading", "waiting"} /\ ~sess[s].disposed
  /\ LET w == Dispose([World EXCEPT !.sess[s].disposed = TRUE], s)
     IN  Apply([w EXCEPT !.sess = NoteFirst(@, s, "close", NegativeResult)])
  /\ UNCHANGED <<panelCounter, reqs, lifeVars>>

Timeout(s) ==
  /\ sess[s].timer = "armed"
  /\ LET w == OnTimeout(World, s)
     IN  Apply([w EXCEPT !.sess = NoteFirst(@, s, "timeout", NegativeResult)])
  /\ UNCHANGED <<panelCounter, reqs, lifeVars>>

PanelNext ==
  \/ Show
  \/ \E s \in Sessions : LoadDone(s)
  \/ \E s \in Sessions : UserResponse(s)
  \/ \E s \in Sessions : AiOptimize(s)
  \/ \E s \in Sessions : PanelClosed(s)
  \/ \E s \in Sessions : Timeout(s)

PanelInit ==
  /\ panels = {}
  /\ panelCounter = 0
  /\ sess = [s \in Sessions |-> NoSession]

\* ================================================ JSON-RPC dispatcher
NoId == 0                       \* the message has no id (a notification)
Methods == {"initialize", "tools/list", "tools/call", "initialized",
            "notifications/cancelled", "unknown"}
\* params of a tools/call: the tool named, or no params object at all
ToolArgs == {"checkpoint", "other", "unknownTool", "noParams"}
NoArgs == "-"
Transports == {"http", "stdio"}
\* what arrives: a JSON-RPC message, text that JSON.parse rejects, or (on
\* stdin) a line that is empty after trim()
Lines == {"json", "malformed", "blank"}

Requests ==
  {r \in [id : 0..MaxReq, method : Methods, tool : ToolArgs \cup {NoArgs}] :
     (r.method = "tools/call") <=> (r.tool # NoArgs)}

NoBody == [what |-> "none", shouldContinue |-> FALSE, userInstruction |-> "none"]
Body(what) == [NoBody EXCEPT !.what = what]

\* the text handleToolCall builds for a confirmation call, lines 1447-1451
CheckpointBodyFlagOnly(result) ==
  [what |-> "checkpoint", shouldContinue |-> result.shouldContinue,
   userInstruction |-> "none"]

CheckpointBody(result) ==
  [what |-> "checkpoint",
   shouldContinue |-> result.shouldContinue,
   userInstruction |-> IF result.shouldContinue
                          /\ result.userInstruction # "none"
                       THEN result.userInstruction ELSE "none"]

\* { jsonrpc: '2.0', id, result } ; JSON.stringify drops an undefined id
ResultResponse(id, body) ==
  [id |-> id, kind |-> "result", code |-> 0, message |-> "", body |-> body]
\* { jsonrpc: '2.0', id, error: { code, message } }
ErrorResponse(id, code, message) ==
  [id |-> id, kind |-> "error", code |-> code, message |-> message,
   body |-> NoBody]

\* what a handler does with a message before its first await:
\*   respond: one response is returned / written
\*   silent:  null is returned / nothing is written
\*   await:   handleToolCall awaits showLocalPopup
\*   parseError: the POST handler's catch answers 400 / -32700
Respond(resp) == [do |-> "respond", resp |-> resp]
Silent == [do |-> "silent", resp |-> ErrorResponse(NoId, 0, "")]
Await == [do |-> "await", resp |-> ErrorResponse(NoId, 0, "")]
ParseFailed ==
  [do |-> "parseError", resp |-> ErrorResponse(NoId, -32700, "Parse error")]

\* error.message of what the handlers can catch
TypeErrorMessage == "Cannot read properties of undefined (reading 'name')"
UnknownToolMessage == "Unknown tool"
PopupFailedMessage == "Webview is disposed"

\* the catch clause of both handlers: an error only for a message with an id
CaughtSilently(id, message) == Silent

Caught(id, message) ==
  IF id # NoId THEN Respond(ErrorResponse(id, -32603, message)) ELSE Silent

\* handleToolCall(params.name, params.arguments || {}) up to its first await
ToolCallStart(id, tool) ==
  CASE tool = "noParams" -> Caught(id, TypeErrorMessage)
    [] tool = "unknownTool" -> Caught(id, UnknownToolMessage)
    [] tool = "other" -> Respond(ResultResponse(id, Body("tool")))
    [] OTHER -> Await

\* handleRequestWithResponse, lines 1682-1719 (HTTP)
HandleRequestWithResponse(request) ==
  CASE request.method = "initialize" ->
         Respond(ResultResponse(request.id, Body("initialize")))
    [] request.method = "tools/list" ->
         Respond(ResultResponse(request.id, Body("tools")))
    [] request.method = "tools/call" -> ToolCallStart(request.id, request.tool)
    [] request.method \in {"initialized", "notifications/cancelled"} -> Silent
    [] OTHER -> IF request.id # NoId
                THEN Respond(ErrorResponse(request.id, -32601, "Unknown method"))
                ELSE Silent

\* handleRequest, lines 1542-1576 (stdio)
HandleRequestNoIdTest(request) ==
  CASE request.method = "initialize" ->
         Respond(ResultResponse(request.id, Body("initialize")))
    [] request.method = "tools/list" ->
         Respond(ResultResponse(request.id, Body("tools")))
    [] request.method = "tools/call" -> ToolCallStart(request.id, request.tool)
    [] request.method \in {"initialized", "notifications/cancelled"} -> Silent
    [] OTHER -> Respond(ErrorResponse(request.id, -32601, "Unknown method"))

HandleRequest(request) ==
  CASE request.method = "initialize" ->
         Respond(ResultResponse(request.id, Body("initialize")))
    [] request.method = "tools/list" ->
         Respond(ResultResponse(request.id, Body("tools")))
    [] request.method = "tools/call" -> ToolCallStart(request.id, request.tool)
    [] request.method \in {"initialized", "notifications/cancelled"} -> Silent
    [] OTHER -> IF request.id # NoId
                THEN Respond(ErrorResponse(request.id, -32601, "Unknown method"))
                ELSE Silent

\* the rest of a confirmation call once showLocalPopup has settled
ToolCallFinish(id, promise) ==
  IF promise.st = "resolved"
  THEN Respond(ResultResponse(id, CheckpointBody(promise.val)))
  ELSE Caught(id, PopupFailedMessage)

\* the 'end' handler of a POST, lines 1655-1672: JSON.parse, then the
\* dispatcher; JSON.parse throws into the catch of line 1668
HandlePostDispatchesAll(line, request) == HandleRequestWithResponse(request)

HandlePost(line, request) ==
  IF line = "json" THEN HandleRequestWithResponse(request) ELSE ParseFailed

\* the 'line' handler of stdin, lines 1896-1906: a blank line returns, a
\* line JSON.parse rejects is logged
HandleLine(line, request) ==
  IF line = "json" THEN HandleRequest(request) ELSE Silent

Accept(transport, line, request) ==
  IF transport = "http" THEN HandlePost(line, request)
  ELSE HandleLine(line, request)

NoRequest == [id |-> NoId, method |-> "unknown", tool |-> NoArgs]
FreeSlot ==
  [st |-> "free", transport |-> "http", line |-> "json",
   request |-> NoRequest,
   dispatched |-> FALSE,    \* the dispatcher was called with the message
   session |-> 0,
   status |-> 0,            \* the HTTP status written, 0 while none is
   out |-> <<>>,            \* the JSON-RPC messages written in answer
   broadcast |-> FALSE]     \* broadcastSSE was called with the answer

\* broadcastSSE('message', response), lines 1594-1598: one event written
\* to every registered stream; k is the slot the response answers
BroadcastSSE(events, clients, k) ==
  [c \in DOMAIN events |->
     IF c \in clients THEN Append(events[c], k) ELSE events[c]]

\* stdio: sendResponse / sendError write one line, or nothing is written
Emit(slot, outcome) ==
  [slot EXCEPT !.st = "done",
               !.out = IF outcome.do = "respond"
                       THEN Append(@, outcome.resp) ELSE @]

\* HTTP, lines 1660-1671: the response (or null) with status 200 and, when
\* it is not null, the broadcast; the parse error with status 400
HttpReply(slot, outcome) ==
  [slot EXCEPT
     !.st = "done",
     !.status = IF outcome.do = "parseError" THEN 400 ELSE 200,
     !.out = IF outcome.do \in {"respond", "parseError"}
             THEN Append(@, outcome.resp) ELSE @,
     !.broadcast = (outcome.do = "respond")]

Finish(slot, outcome) ==
  IF slot.transport = "http" THEN HttpReply(slot, outcome)
  ELSE Emit(slot, outcome)

\* the streams after slot k was finished: if (response) broadcastSSE(...)
Fanout(events, clients, k, slot) ==
  IF slot.broadcast THEN BroadcastSSE(events, clients, k) ELSE events

\* a POST body or a stdin line arrives and is handled up to its first
\* await; a confirmation call opens a session
Arrive(k, transport) ==
  /\ reqs[k].st = "free"
  /\ \A j \in 1..(k - 1) : reqs[j].st # "free"
  /\ \E line \in Lines, request \in Requests :
       /\ transport = "http" => line # "blank"
       /\ line # "json" => request = NoRequest
       /\ request.id \in {NoId, k}
       /\ LET outcome == Accept(transport, line, request)
              slot == [FreeSlot EXCEPT !.transport = transport,
                                       !.line = line,
                                       !.request = request,
                                       !.dispatched = (line = "json")]
          IN  IF outcome.do = "await"
              THEN /\ panelCounter < MaxPanels
                   /\ panelCounter' = panelCounter + 1
                   /\ Apply(ShowStart(World, panelCounter + 1))
                   /\ reqs' = [reqs EXCEPT ![k] =
                        [slot EXCEPT !.st = "awaiting",
                                     !.session = panelCounter + 1]]
                   /\ UNCHANGED sseEvents
              ELSE /\ reqs' = [reqs EXCEPT ![k] = Finish(slot, outcome)]
                   /\ sseEvents' = Fanout(sseEvents, sseClients, k,
                                          Finish(slot, outcome))
                   /\ UNCHANGED panelVars
  /\ UNCHANGED serverVars

Post(k) == Arrive(k, "http")
Line(k) == Arrive(k, "stdio")

\* a message arrives on a transport that is up
Receive(k) == Post(k) \/ Line(k)

\* the session of a suspended confirmation call has settled
Complete(k) ==
  /\ reqs[k].st = "awaiting"
  /\ sess[reqs[k].session].promise.st \in {"resolved", "rejected"}
  /\ reqs' = [reqs EXCEPT ![k] =
       Finish(@, ToolCallFinish(@.request.id, sess[@.session].promise))]
  /\ sseEvents' = Fanout(sseEvents, sseClients, k, reqs'[k])
  /\ UNCHANGED <<panelVars, serverVars>>

RpcInit == reqs = [k \in 1..MaxReq |-> FreeSlot]

\* =========================================== server lifecycle manager
DefaultPort == 6000       \* HTTP_PORT, and the initial ServerState.port
ExtensionPort == 3456     \* the port activate() starts the server on
AnyPort == 0              \* ServerState.port in stdio mode; listen(0)
                          \*   binds whatever port the system picks
Ports == {ExtensionPort, DefaultPort}
Calls == 1..MaxCalls

Listeners == 1..MaxListeners

\* openAtClose: the SSE streams still open when close() was called
NoServer == [st |-> "none", port |-> AnyPort, closeCalled |-> FALSE,
             openAtClose |-> 0]

\* currentServerState as the module initialises it, lines 913-919
InitialServerState ==
  [isRunning |-> FALSE, transport |-> "http", port |-> DefaultPort,
   startedAt |-> FALSE, error |-> FALSE]

\* a callback that was never passed to subscribeToServerState
NoDelivery ==
  [sub |-> "never",                  \* never, on (subscribed), off
   n |-> 0,                          \* times the callback was invoked
   nAtUnsub |-> 0,                   \* n when unsubscribe was called
   last |-> [InitialServerState EXCEPT !.port = AnyPort] @@
            [clientCount |-> 0]]     \* the state it was last invoked with

Life ==
  [httpServer |-> httpServer, servers |-> servers,
   state |-> currentServerState, sseClients |-> sseClients,
   sseOpen |-> sseOpen, notified |-> notified,
   stdioHandlers |-> stdioHandlers, listeners |-> serverStateListeners,
   delivered |-> delivered, events |-> sseEvents]

ApplyLife(L) ==
  /\ httpServer' = L.httpServer
  /\ servers' = L.servers
  /\ currentServerState' = L.state
  /\ sseClients' = L.sseClients
  /\ sseOpen' = L.sseOpen
  /\ notified' = L.notified
  /\ stdioHandlers' = L.stdioHandlers
  /\ serverStateListeners' = L.listeners
  /\ delivered' = L.delivered
  /\ sseEvents' = L.events

\* getServerState(), lines 949-957: clientCount is read from sseClients
GetServerState(L) ==
  [isRunning |-> L.state.isRunning, transport |-> L.state.transport,
   port |-> L.state.port, startedAt |-> L.state.startedAt,
   error |-> L.state.error, clientCount |-> Cardinality(L.sseClients)]

\* listener(state) for one callback
Deliver(d, state) == [d EXCEPT !.n = @ + 1, !.last = state]

\* notifyServerStateChange(), lines 941-944
NotifyServerStateChange(L) ==
  [L EXCEPT !.notified = Append(@, GetServerState(L)),
            !.delivered = [u \in Listeners |->
               IF u \in L.listeners THEN Deliver(@[u], GetServerState(L))
               ELSE @[u]]]

\* subscribeToServerState(callback), lines 931-936
SubscribeToServerState(L, u) ==
  [L EXCEPT !.listeners = @ \cup {u},
            !.delivered[u] = Deliver([@ EXCEPT !.sub = "on"],
                                     GetServerState(L))]

\* the function subscribeToServerState returned, line 935
UnsubscribeFromServerState(L, u) ==
  [L EXCEPT !.listeners = @ \ {u},
            !.delivered[u] = [@ EXCEPT !.sub = "off",
                                        !.nAtUnsub = L.delivered[u].n]]

\* a bind on 127.0.0.1:port succeeds
PortFree(L, port) ==
  \/ port = AnyPort
  \/ /\ port \notin foreign
     /\ \A c \in Calls :
          ~(L.servers[c].st = "listening" /\ L.servers[c].port = port)
     /\ \A t \in DOMAIN testServers :
          ~(testServers[t].bound /\ testServers[t].port = port)

\* http.Server.close(): a listening server stops listening; on a server
\* whose bind is still in progress there is no handle to close yet
CloseServer(srv) ==
  CASE srv.st = "listening" -> [srv EXCEPT !.st = "closed"]
    [] srv.st = "binding" -> [srv EXCEPT !.closeCalled = TRUE]
    [] OTHER -> srv

\* client.res.end() for every registered stream, then sseClients = [],
\* lines 1763-1771
EndSseClients(L) ==
  [L EXCEPT !.sseOpen = @ \ L.sseClients, !.sseClients = {},
            !.events = [c \in DOMAIN @ |->
                          IF c \in L.sseClients THEN <<>> ELSE @[c]]]

\* httpServer.close(); httpServer = null, lines 1773-1774
CloseListener(L) ==
  [L EXCEPT !.servers[L.httpServer] =
              [CloseServer(@) EXCEPT !.openAtClose = Cardinality(L.sseOpen)],
            !.httpServer = 0]

\* stopHTTPServer(), lines 1760-1790
StopClosesFirst(L) ==
  IF L.httpServer = 0 THEN L
  ELSE NotifyServerStateChange(
         [EndSseClients(CloseListener(L)) EXCEPT
            !.state = [isRunning |-> FALSE, transport |-> "http",
                       port |-> L.state.port, startedAt |-> FALSE,
                       error |-> FALSE]])

StopHTTPServer(L) ==
  IF L.httpServer = 0 THEN L
  ELSE NotifyServerStateChange(
         [CloseListener(EndSseClients(L)) EXCEPT
            !.state = [isRunning |-> FALSE, transport |-> "http",
                       port |-> L.state.port, startedAt |-> FALSE,
                       error |-> FALSE]])

\* startHTTPServer(port) up to the return of listen(), lines 1721-1757;
\* c is the call whose promise the new server's callbacks settle
StartAlwaysBinds(L, c, port) ==
  [L EXCEPT !.httpServer = c,
            !.servers[c] = [NoServer EXCEPT !.st = "binding",
                                            !.port = port]]

StartHTTPServer(L, c, port) ==
  IF L.httpServer # 0 THEN L
  ELSE [L EXCEPT !.httpServer = c,
                 !.servers[c] = [NoServer EXCEPT !.st = "binding",
                                                 !.port = port]]

\* the listen callback, lines 1739-1756
OnListening(L, c) ==
  NotifyServerStateChange(
    [L EXCEPT !.servers[c].st = "listening",
              !.state = [isRunning |-> TRUE, transport |-> "http",
                         port |-> L.servers[c].port, startedAt |-> TRUE,
                         error |-> FALSE]])

\* the 'error' handler, lines 1731-1737
OnError(L, c) ==
  NotifyServerStateChange(
    [L EXCEPT !.servers[c].st = "failed",
              !.state.isRunning = FALSE,
              !.state.error = TRUE])

\* startStdioServer(), lines 1889-1907: one more 'line' handler on stdin
StartStdioServer(L) == [L EXCEPT !.stdioHandlers = @ + 1]

\* the stdio branch of switchTransport, lines 1860-1879
SwitchToStdioKeepsHttp(L) ==
  NotifyServerStateChange(
    [StartStdioServer(L) EXCEPT
       !.state = [isRunning |-> TRUE, transport |-> "stdio",
                  port |-> AnyPort, startedAt |-> TRUE, error |-> FALSE]])

SwitchToStdio(L) ==
  NotifyServerStateChange(
    [StartStdioServer(StopHTTPServer(L)) EXCEPT
       !.state = [isRunning |-> TRUE, transport |-> "stdio",
                  port |-> AnyPort, startedAt |-> TRUE, error |-> FALSE]])

\* the test of line 1849: probe unless "already running on this port"
NeedsProbe(state, port) == ~state.isRunning \/ state.port # port

\* an HTTP listener of this process is bound to exactly this port
ListenerOn(L, port) ==
  \E c \in Calls : L.servers[c].st = "listening" /\ L.servers[c].port = port

NoCall ==
  [op |-> "none",          \* start, stop, restart, switchHttp, switchStdio
   port |-> AnyPort,
   pc |-> "idle",          \* idle, probe, sleep, bind, done
   result |-> "none",      \* ok, rejected, fail ({success: false})
   shortcut |-> FALSE,     \* startHTTPServer took the 'already running' exit
   verified |-> FALSE,     \* checkPortAvailable answered true in this call
   wasBound |-> FALSE,     \* ListenerOn(port) held when the restart began;
                           \*   for stop and a switch to stdio: httpServer
                           \*   was listening when the call was made
   clients |-> 0,          \* SSE streams registered when the server was
                           \*   stopped by this call
   restarted |-> FALSE]    \* the call went on to restartHTTPServer

Begins(c) ==
  /\ calls[c].op = "none"
  /\ \A j \in 1..(c - 1) : calls[j].op # "none"

\* the call's own startHTTPServer has run up to listen()
AfterStart(call, already) ==
  [call EXCEPT !.pc = IF already THEN "done" ELSE "bind",
               !.result = IF already THEN "ok" ELSE @,
               !.shortcut = already]

\* the call goes on to restartHTTPServer: stop now, start after 100 ms
IntoRestart(call, L) ==
  [call EXCEPT !.pc = "sleep", !.restarted = TRUE,
               !.wasBound = ListenerOn(L, call.port),
               !.clients = Cardinality(L.sseClients)]

\* httpServer holds a server that is listening
Listening(L) ==
  L.httpServer # 0 /\ L.servers[L.httpServer].st = "listening"

StartCall(c) ==
  /\ Begins(c)
  /\ \E port \in Ports :
       /\ ApplyLife(StartHTTPServer(Life, c, port))
       /\ calls' = [calls EXCEPT ![c] =
            AfterStart([NoCall EXCEPT !.op = "start", !.port = port],
                       httpServer # 0)]
  /\ UNCHANGED <<envVars, panelVars, reqs>>

StopCall(c) ==
  /\ Begins(c)
  /\ ApplyLife(StopHTTPServer(Life))
  /\ calls' = [calls EXCEPT ![c] =
       [NoCall EXCEPT !.op = "stop", !.pc = "done", !.result = "ok",
                      !.wasBound = Listening(Life),
                      !.clients = Cardinality(sseClients)]]
  /\ UNCHANGED <<envVars, panelVars, reqs>>

\* restartHTTPServer(newPort) up to its delay, lines 1795-1800
RestartCall(c) ==
  /\ Begins(c)
  /\ \E port \in Ports \cup {currentServerState.port} :
       calls' = [calls EXCEPT ![c] =
         [NoCall EXCEPT !.op = "restart", !.port = port, !.pc = "sleep",
                        !.clients = Cardinality(sseClients)]]
  /\ ApplyLife(StopHTTPServer(Life))
  /\ UNCHANGED <<envVars, panelVars, reqs>>

\* restartHTTPServer after the delay: await startHTTPServer(newPort)
Wake(c) ==
  /\ calls[c].pc = "sleep"
  /\ ApplyLife(StartHTTPServer(Life, c, calls[c].port))
  /\ calls' = [calls EXCEPT ![c] = AfterStart(@, httpServer # 0)]
  /\ UNCHANGED <<envVars, panelVars, reqs>>

\* switchTransport(transport, port = currentServerState.port) up to its
\* first await, lines 1842-1886
SwitchCall(c) ==
  /\ Begins(c)
  /\ \E transport \in {"http", "auto", "stdio"},
        port \in Ports \cup {currentServerState.port} :
       IF transport = "stdio"
       THEN /\ ApplyLife(SwitchToStdio(Life))
            /\ calls' = [calls EXCEPT ![c] =
                 [NoCall EXCEPT !.op = "switchStdio", !.pc = "done",
                                !.result = "ok",
                                !.wasBound = Listening(Life),
                                !.clients = Cardinality(sseClients)]]
       ELSE LET call == [NoCall EXCEPT !.op = "switchHttp", !.port = port]
            IN  IF NeedsProbe(currentServerState, port)
                THEN /\ calls' = [calls EXCEPT ![c] =
                          [call EXCEPT !.pc = "probe"]]
                     /\ UNCHANGED managerVars
                ELSE /\ calls' = [calls EXCEPT ![c] =
                          IntoRestart(call, Life)]
                     /\ ApplyLife(StopHTTPServer(Life))
  /\ UNCHANGED <<envVars, panelVars, reqs>>

\* checkPortAvailable(port) has answered, lines 1808-1824 and 1850-1857
ProbeDone(c) ==
  /\ calls[c].pc = "probe"
  /\ IF PortFree(Life, calls[c].port)
     THEN /\ calls' = [calls EXCEPT ![c] =
               IntoRestart([@ EXCEPT !.verified = TRUE], Life)]
          /\ ApplyLife(StopHTTPServer(Life))
     ELSE /\ calls' = [calls EXCEPT ![c] =
               [@ EXCEPT !.pc = "done", !.result = "fail"]]
          /\ UNCHANGED managerVars
  /\ UNCHANGED <<envVars, panelVars, reqs>>

\* the promise of the startHTTPServer that created server c settles; a
\* rejection inside switchTransport is caught and returned as a failure
Settle(call, ok) ==
  IF call.pc # "bind" THEN call
  ELSE [call EXCEPT !.pc = "done",
                    !.result = IF ok THEN "ok"
                               ELSE IF call.op = "switchHttp" THEN "fail"
                               ELSE "rejected"]

\* the bind of server c is attempted: 'listening' or 'error' (EADDRINUSE)
BindDone(c) ==
  /\ servers[c].st = "binding"
  /\ LET free == PortFree(Life, servers[c].port)
     IN  /\ ApplyLife(IF free THEN OnListening(Life, c) ELSE OnError(Life, c))
         /\ calls' = [calls EXCEPT ![c] = Settle(@, free)]
  /\ UNCHANGED <<envVars, panelVars, reqs>>

\* close() reached server c before its bind: depending on the runtime the
\* bind still goes ahead (BindDone) or is dropped, and then neither
\* callback ever runs
BindCancelled(c) ==
  /\ servers[c].st = "binding" /\ servers[c].closeCalled
  /\ servers' = [servers EXCEPT ![c].st = "closed"]
  /\ UNCHANGED <<httpServer, currentServerState, sseClients, sseOpen, envVars,
                 calls, notified, stdioHandlers, serverStateListeners,
                 delivered, sseEvents, panelVars, reqs>>

\* GET /sse: the stream is opened and pushed onto sseClients, line 1636
SseRegister(L, id) ==
  [L EXCEPT !.sseOpen = @ \cup {id}, !.sseClients = @ \cup {id},
            !.events[id] = <<>>]

\* the 'close' event of an SSE request, lines 1643-1646
SseCloseKeepsClient(L, id) ==
  [L EXCEPT !.sseOpen = @ \ {id}, !.events[id] = <<>>]

SseClose(L, id) ==
  [L EXCEPT !.sseOpen = @ \ {id}, !.sseClients = @ \ {id},
            !.events[id] = <<>>]

\* GET /sse on a listening server, lines 1627-1649
SseConnect ==
  /\ \E c \in Calls : servers[c].st = "listening"
  /\ (1..MaxClients) \ (sseClients \cup sseOpen) # {}
  /\ LET free == (1..MaxClients) \ (sseClients \cup sseOpen)
         \* the new stream's clientId is fresh: the least unused one
         id == CHOOSE x \in free : \A y \in free : x <= y
     IN  ApplyLife(SseRegister(Life, id))
  /\ UNCHANGED <<envVars, calls, panelVars, reqs>>

\* the client goes away
SseDisconnect ==
  /\ \E id \in sseOpen : ApplyLife(SseClose(Life, id))
  /\ UNCHANGED <<envVars, calls, panelVars, reqs>>

\* some component of the extension subscribes to the server state
Subscribe(u) ==
  /\ delivered[u].sub = "never"
  /\ ApplyLife(SubscribeToServerState(Life, u))
  /\ UNCHANGED <<envVars, calls, panelVars, reqs>>

Unsubscribe(u) ==
  /\ delivered[u].sub = "on"
  /\ ApplyLife(UnsubscribeFromServerState(Life, u))
  /\ UNCHANGED <<envVars, calls, panelVars, reqs>>

LifeNext ==
  \/ \E c \in Calls : StartCall(c)
  \/ \E c \in Calls : StopCall(c)
  \/ \E c \in Calls : RestartCall(c)
  \/ \E c \in Calls : SwitchCall(c)
  \/ \E c \in Calls : Wake(c)
  \/ \E c \in Calls : ProbeDone(c)
  \/ \E c \in Calls : BindDone(c)
  \/ \E c \in Calls : BindCancelled(c)
  \/ SseConnect
  \/ SseDisconnect

LifeInit ==
  /\ httpServer = 0
  /\ servers = [c \in Calls |-> NoServer]
  /\ currentServerState = InitialServerState
  /\ sseClients = {}
  /\ sseOpen = {}
  /\ serverStateListeners = {}
  /\ delivered = [u \in Listeners |-> NoDelivery]
  /\ sseEvents = [c \in 1..MaxClients |-> <<>>]
  /\ calls = [c \in Calls |-> NoCall]
  /\ notified = <<>>
  /\ stdioHandlers = 0

\* ======================================================= tool registry
MaxPairs == 2     \* pairs of prefix and suffix the name generator can draw

\* every variable of the sessions, the dispatcher and the lifecycle manager
serviceVars == <<panelVars, reqs, managerVars, calls, foreign, laterVars>>
\* the variables of the components beside the tool registry
asideVars == <<normalized, monVars>>

Pairs == 1..MaxPairs

\* the names built from pair p, helper.ts lines 140-144:
\* `${prefix}_confirm_${suffix}`, `${prefix}_optimize_${suffix}`,
\* `${prefix}_fill_${suffix}`
NamesOf(p) ==
  [checkpoint |-> <<"_confirm_", p>>,
   promptRefiner |-> <<"_optimize_", p>>,
   inputBridge |-> <<"_fill_", p>>]

\* a name that is not built from a pair
Fixed(text) == <<text, 0>>

CheckpointLegacyNames == {Fixed("windsurf-endless"), Fixed("session_checkpoint")}
PromptRefinerLegacyNames == {Fixed("optimize_prompt"), Fixed("prompt_refiner")}
InputBridgeLegacyNames == {Fixed("fill_cascade_input"), Fixed("input_bridge")}

\* the strings a caller may pass as a tool name
ToolNames ==
  UNION {{NamesOf(p).checkpoint, NamesOf(p).promptRefiner,
          NamesOf(p).inputBridge} : p \in Pairs}
    \cup CheckpointLegacyNames \cup PromptRefinerLegacyNames
    \cup InputBridgeLegacyNames \cup {Fixed("no_such_tool")}

\* getRandomizedToolNames(): the pair in use after the call, p being the pair
\* the generator draws when the cache is empty
GetRandomizedToolNames(cache, p) == IF cache = 0 THEN p ELSE cache

\* isCheckpointToolName / isPromptRefinerToolName / isInputBridgeToolName,
\* given the pair getRandomizedToolNames() returned
IsCheckpointRotatedOnly(name, pair) == name = NamesOf(pair).checkpoint

IsCheckpointToolName(name, pair) ==
  name = NamesOf(pair).checkpoint \/ name \in CheckpointLegacyNames

IsPromptRefinerToolName(name, pair) ==
  name = NamesOf(pair).promptRefiner \/ name \in PromptRefinerLegacyNames

IsInputBridgeToolName(name, pair) ==
  name = NamesOf(pair).inputBridge \/ name \in InputBridgeLegacyNames

Resolvers == {"checkpoint", "promptRefiner", "inputBridge"}

ResolverAnswer(resolver, name, pair) ==
  CASE resolver = "checkpoint" -> IsCheckpointToolName(name, pair)
    [] resolver = "promptRefiner" -> IsPromptRefinerToolName(name, pair)
    [] OTHER -> IsInputBridgeToolName(name, pair)

\* generateTools(), lines 1299-1340: name and inputSchema.required
GenerateToolsSnapshot(pair) ==
  << [name |-> NamesOf(1).checkpoint, required |-> <<"summary">>],
     [name |-> NamesOf(1).promptRefiner, required |-> <<"prompt">>],
     [name |-> NamesOf(1).inputBridge, required |-> <<"content">>] >>

GenerateTools(pair) ==
  << [name |-> NamesOf(pair).checkpoint, required |-> <<"summary">>],
     [name |-> NamesOf(pair).promptRefiner, required |-> <<"prompt">>],
     [name |-> NamesOf(pair).inputBridge, required |-> <<"content">>] >>

\* the normalized arguments of a call: which of the fields the tools read
\* are present and truthy ({}, {prompt}, {prompt, optimized_prompt},
\* {content})
CallArgs ==
  {a \in [prompt : BOOLEAN, optimized_prompt : BOOLEAN, content : BOOLEAN] :
     /\ a.optimized_prompt => a.prompt
     /\ a.content => ~a.prompt}

\* the pairs the generator can return to a caller that finds this cache
Draws(cache) == IF cache = 0 THEN Pairs ELSE {cache}

\* what handleToolCall does before its first await:
\*   return: it returns a tool result with this text
\*   throw:  it throws
\*   popup / optimizer / fill: it awaits showLocalPopup or a handler
Return(text) == [do |-> "return", text |-> text]
Throw == [do |-> "throw", text |-> UnknownToolMessage]
AwaitHandler(which) == [do |-> which, text |-> ""]

\* the prompt-refiner branch, lines 1454-1510
Refine(args, windsurf, handler) ==
  CASE ~args.prompt -> Return("missing prompt")
    [] args.optimized_prompt -> Return("optimized")
    [] windsurf -> Return("optimize it yourself")
    [] handler -> AwaitHandler("optimizer")
    [] OTHER -> Return("not configured")

\* the input-bridge branch, lines 1512-1537
FillThrowsUnwired(args, handler) ==
  CASE ~args.content -> Return("missing content")
    [] handler -> AwaitHandler("fill")
    [] OTHER -> Throw

Fill(args, handler) ==
  CASE ~args.content -> Return("missing content")
    [] handler -> AwaitHandler("fill")
    [] OTHER -> Return("not configured")

\* handleToolCall(name, args), lines 1411-1540, up to its first await
HandleToolCall(name, args, pair, windsurf, optimizer, fill) ==
  CASE IsCheckpointToolName(name, pair) -> AwaitHandler("popup")
    [] IsPromptRefinerToolName(name, pair) -> Refine(args, windsurf, optimizer)
    [] IsInputBridgeToolName(name, pair) -> Fill(args, fill)
    [] OTHER -> Throw

\* the branch of handleToolCall a name is routed to
RouteOf(name, pair) ==
  CASE IsCheckpointToolName(name, pair) -> "checkpoint"
    [] IsPromptRefinerToolName(name, pair) -> "promptRefiner"
    [] IsInputBridgeToolName(name, pair) -> "inputBridge"
    [] OTHER -> "unknown"

\* what a handler's promise can settle with
HandlerResults == {"success", "failure", "rejected"}

\* the rest of handleToolCall once the handler has settled,
\* lines 1489-1503 and 1520-1530
AfterHandler(which, result) ==
  CASE result = "rejected" -> [do |-> "throw", text |-> "handler failed"]
    [] result = "failure" -> Return("failed")
    [] which = "optimizer" -> Return("optimized")
    [] OTHER -> Return("filled")

\* the dispatcher's answer to what handleToolCall did, lines 1558-1575
ToolResponse(id, outcome) ==
  IF outcome.do = "throw" THEN Caught(id, outcome.text)
  ELSE Respond(ResultResponse(id, Body("tool")))

NoTool ==
  [op |-> "none",          \* none, list, call, resolve
   st |-> "idle",          \* idle, awaiting (a handler), done
   id |-> NoId,
   name |-> Fixed("no_such_tool"),
   args |-> [prompt |-> FALSE, optimized_prompt |-> FALSE, content |-> FALSE],
   route |-> "unknown",
   wired |-> FALSE,        \* the routed tool's handler was set at the call
   windsurf |-> FALSE,     \* environmentConfig.isWindsurf at the call
   outcome |-> Throw,
   response |-> Silent,
   resolver |-> "checkpoint",
   answer |-> FALSE,       \* what the resolver returned
   pair |-> 0,             \* the pair in use when a list or resolver call
                           \*   returned
   generated |-> FALSE,    \* that call found the cache empty
   tools |-> <<>>,         \* the tools of the last tools/list response
   listedPair |-> 0,       \* the pair in use at the last tools/list
   stdout |-> <<>>,        \* the lines console.log wrote for the operation
                           \*   when its request came over stdin
   resetSince |-> FALSE]   \* resetRandomizedToolNames ran since that list

\* console.log('[ToolNames] Generated ...') when getRandomizedToolNames
\* finds the cache empty, helper.ts line 146
ConsoleLogNames(cache) == IF cache = 0 THEN <<"[ToolNames]">> ELSE <<>>

\* sendResponse and sendError, lines 1355-1363: console.log of a JSON line
ConsoleLogResponse(response) ==
  IF response.do = "respond" THEN <<"jsonrpc">> ELSE <<>>

\* the record of a new operation: what is known of the last tools/list stays
NewTool ==
  [NoTool EXCEPT !.tools = lastTool.tools, !.listedPair = lastTool.listedPair,
                 !.resetSince = lastTool.resetSince]

\* setEnvironmentConfig, setPromptOptimizerHandler, setFillInputHandler
SetEnvironmentConfig(w) ==
  /\ environmentConfig' = [isWindsurf |-> w]
  /\ environmentConfig' # environmentConfig
  /\ UNCHANGED <<randomizedToolNames, customPromptOptimizerHandler,
                 customFillInputHandler, lastTool, serviceVars, asideVars>>

SetPromptOptimizerHandler(h) ==
  /\ customPromptOptimizerHandler' = h
  /\ customPromptOptimizerHandler' # customPromptOptimizerHandler
  /\ UNCHANGED <<randomizedToolNames, customFillInputHandler,
                 environmentConfig, lastTool, serviceVars, asideVars>>

SetFillInputHandler(h) ==
  /\ customFillInputHandler' = h
  /\ customFillInputHandler' # customFillInputHandler
  /\ UNCHANGED <<randomizedToolNames, customPromptOptimizerHandler,
                 environmentConfig, lastTool, serviceVars, asideVars>>

\* resetRandomizedToolNames(), helper.ts lines 178-180
ResetRandomizedToolNames ==
  /\ randomizedToolNames' = 0
  /\ lastTool' = [lastTool EXCEPT !.resetSince = TRUE]
  /\ UNCHANGED <<customPromptOptimizerHandler, customFillInputHandler,
                 environmentConfig, serviceVars, asideVars>>

\* one of the three resolvers is called with a name
ResolveName ==
  /\ lastTool.st # "awaiting"
  /\ \E resolver \in Resolvers, name \in ToolNames,
        p \in Draws(randomizedToolNames) :
       LET pair == GetRandomizedToolNames(randomizedToolNames, p)
       IN  /\ randomizedToolNames' = pair
           /\ lastTool' = [NewTool EXCEPT
                !.op = "resolve", !.st = "done", !.resolver = resolver,
                !.name = name, !.pair = pair,
                !.generated = (randomizedToolNames = 0),
                !.stdout = ConsoleLogNames(randomizedToolNames),
                !.answer = ResolverAnswer(resolver, name, pair)]
  /\ UNCHANGED <<customPromptOptimizerHandler, customFillInputHandler,
                 environmentConfig, serviceVars, asideVars>>

\* a tools/list request is answered, lines 1555 and 1698
ToolsList ==
  /\ lastTool.st # "awaiting"
  /\ \E p \in Draws(randomizedToolNames) :
       LET pair == GetRandomizedToolNames(randomizedToolNames, p)
       IN  /\ randomizedToolNames' = pair
           /\ lastTool' = [NewTool EXCEPT
                !.op = "list", !.st = "done", !.pair = pair,
                !.generated = (randomizedToolNames = 0),
                !.tools = GenerateTools(pair), !.listedPair = pair,
                !.stdout = ConsoleLogNames(randomizedToolNames)
                           \o <<"jsonrpc">>,
                !.resetSince = FALSE]
  /\ UNCHANGED <<customPromptOptimizerHandler, customFillInputHandler,
                 environmentConfig, serviceVars, asideVars>>

\* a tools/call request is handled up to handleToolCall's first await
ToolsCall ==
  /\ lastTool.st # "awaiting"
  /\ \E id \in {NoId, 1}, name \in ToolNames, args \in CallArgs,
        p \in Draws(randomizedToolNames) :
       LET pair == GetRandomizedToolNames(randomizedToolNames, p)
           outcome == HandleToolCall(name, args, pair,
                        environmentConfig.isWindsurf,
                        customPromptOptimizerHandler, customFillInputHandler)
           route == RouteOf(name, pair)
       IN  /\ randomizedToolNames' = pair
           /\ lastTool' = [NewTool EXCEPT
                !.op = "call", !.id = id, !.name = name, !.args = args,
                !.route = route,
                !.wired = CASE route = "promptRefiner" ->
                                 customPromptOptimizerHandler
                            [] route = "inputBridge" -> customFillInputHandler
                            [] OTHER -> FALSE,
                !.windsurf = environmentConfig.isWindsurf,
                !.outcome = outcome,
                !.st = IF outcome.do \in {"return", "throw"}
                       THEN "done" ELSE "awaiting",
                !.response = IF outcome.do \in {"return", "throw"}
                             THEN ToolResponse(id, outcome) ELSE Await,
                !.stdout = ConsoleLogNames(randomizedToolNames) \o
                           (IF outcome.do \in {"return", "throw"}
                            THEN ConsoleLogResponse(ToolResponse(id, outcome))
                            ELSE <<>>)]
  /\ UNCHANGED <<customPromptOptimizerHandler, customFillInputHandler,
                 environmentConfig, serviceVars, asideVars>>

\* the handler a call awaits settles; a confirmation call's popup returns
\* its result (the sessions are modelled with the dispatcher)
HandlerDone ==
  /\ lastTool.st = "awaiting"
  /\ \E result \in HandlerResults, p \in Draws(randomizedToolNames) :
       LET outcome == IF lastTool.outcome.do = "popup"
                      THEN (IF result = "rejected"
                            THEN [do |-> "throw", text |-> PopupFailedMessage]
                            ELSE Return("should_continue"))
                      ELSE AfterHandler(lastTool.outcome.do, result)
           \* the success text of the optimizer names the input bridge
           pair == IF lastTool.outcome.do = "optimizer" /\ result = "success"
                   THEN GetRandomizedToolNames(randomizedToolNames, p)
                   ELSE randomizedToolNames
       IN  /\ randomizedToolNames' = pair
           /\ lastTool' = [lastTool EXCEPT !.st = "done", !.outcome = outcome,
                                   !.response = ToolResponse(lastTool.id, outcome),
                !.stdout = @ \o (IF pair = randomizedToolNames THEN <<>>
                                 ELSE ConsoleLogNames(randomizedToolNames))
                             \o ConsoleLogResponse(
                                  ToolResponse(lastTool.id, outcome))]
  /\ UNCHANGED <<customPromptOptimizerHandler, customFillInputHandler,
                 environmentConfig, serviceVars, asideVars>>

\* tools/call with the handlers being set and cleared, under one rotation
ToolNext ==
  \/ \E w \in BOOLEAN : SetEnvironmentConfig(w)
  \/ \E h \in BOOLEAN : SetPromptOptimizerHandler(h)
  \/ \E h \in BOOLEAN : SetFillInputHandler(h)
  \/ ToolsCall
  \/ HandlerDone

\* the names under resets: resolvers, tools/list and tools/call
NamesNext ==
  \/ ResetRandomizedToolNames
  \/ ResolveName
  \/ ToolsList
  \/ ToolsCall
  \/ HandlerDone

\* the module as loaded: no names generated, no handler set, lines 979-981,
\* 1026-1029 and helper.ts line 132
ToolInit ==
  /\ randomizedToolNames = 0
  /\ customPromptOptimizerHandler = FALSE
  /\ customFillInputHandler = FALSE
  /\ environmentConfig = [isWindsurf |-> FALSE]
  /\ lastTool = NoTool

\* ======================================================= normalizeArgs
MaxDepth == 2     \* levels of maps nested below the top-level map

\* A JSON value: its type t, and its members kids (a function from keys to
\* values, empty for a scalar; for a string holding JSON text, the value
\* JSON.parse returns under "parsed").
NoKids == [k \in {} |-> 0]
Scalar(t) == [t |-> t, kids |-> NoKids]
Null == Scalar("null")
Zero == Scalar("0")
Five == Scalar("5")
EmptyString == Scalar("")
PlainText == Scalar("text")           \* a string that is not JSON text
EmptyArray == Scalar("array")
JsonText(v) == [t |-> "json", kids |-> [k \in {"parsed"} |-> v]]
Map(f) == [t |-> "map", kids |-> f]

\* { ...a, ...b } of two objects
Spread(a, b) ==
  Map([k \in DOMAIN a.kids \cup DOMAIN b.kids |->
         IF k \in DOMAIN b.kids THEN b.kids[k] ELSE a.kids[k]])

\* !v
Falsy(v) == v.t \in {"null", "0", ""}
\* typeof v === 'object' for a v that is not null
IsObject(v) == v.t \in {"map", "array"}
\* args[key] && typeof args[key] === 'object'
HasNested(args, key) ==
  /\ key \in DOMAIN args.kids
  /\ ~Falsy(args.kids[key]) /\ IsObject(args.kids[key])

\* normalizeArgs(args), lines 1371-1409
RECURSIVE normalizeArgs(_)
normalizeArgs(args) ==
  CASE Falsy(args) -> Map(NoKids)
    [] args.t = "json" -> normalizeArgs(args.kids["parsed"])
    [] args.t = "text" -> Map([k \in {"content"} |-> args])
    [] ~IsObject(args) -> Map([k \in {"value"} |-> args])
    [] HasNested(args, "input") -> Spread(args, args.kids["input"])
    [] HasNested(args, "arguments") -> Spread(args, args.kids["arguments"])
    [] OTHER -> args

\* the argument values tried: the scalars, maps over the keys input,
\* arguments and summary with at most one nested map per level, and JSON
\* text of a scalar or of a map without nested maps
FlatFunctions ==
  UNION {[S -> {PlainText, EmptyArray, Five}] :
           S \in SUBSET {"input", "arguments", "summary"}}
FlatMaps ==
  {Map(f) : f \in {g \in FlatFunctions :
     /\ \A k \in DOMAIN g \cap {"input", "arguments"} : g[k] # Five
     /\ "summary" \in DOMAIN g => g["summary"] = Five}}

RECURSIVE Maps(_)
Maps(d) ==
  IF d = 0 THEN FlatMaps
  ELSE FlatMaps \cup
       {Map([k \in DOMAIN m.kids \cup {key} |->
               IF k = key THEN n ELSE m.kids[k]]) :
          m \in FlatMaps, key \in {"input", "arguments"}, n \in Maps(d - 1)}

\* maps with a nested map under input, under arguments or under both, and
\* with or without a top-level summary that differs from the nested one
MergeMaps ==
  {Map([k \in S \cup T |-> CASE k = "input" -> a
                             [] k = "arguments" -> b
                             [] OTHER -> PlainText]) :
     a \in FlatMaps, b \in FlatMaps,
     S \in (SUBSET {"input", "arguments"}) \ {{}}, T \in SUBSET {"summary"}}

Scalars == {Null, Zero, Five, EmptyString, PlainText, EmptyArray}
ArgValues ==
  Scalars \cup Maps(MaxDepth) \cup MergeMaps
    \cup {JsonText(v) : v \in Scalars \cup FlatMaps \cup {JsonText(Five)}}

NotNormalized(v) == [arg |-> v, st |-> "given", once |-> Null, twice |-> Null]

\* handleToolCall normalizes the arguments it is called with, line 1413
Normalize ==
  /\ normalized.st = "given"
  /\ normalized' = [normalized EXCEPT !.st = "once",
                                      !.once = normalizeArgs(normalized.arg)]
  /\ UNCHANGED <<serviceVars, toolVars, monVars>>

\* the normalized arguments are passed through normalizeArgs again
NormalizeAgain ==
  /\ normalized.st = "once"
  /\ normalized' = [normalized EXCEPT !.st = "twice",
                                      !.twice = normalizeArgs(normalized.once)]
  /\ UNCHANGED <<serviceVars, toolVars, monVars>>

NormNext == Normalize \/ NormalizeAgain

NormInit == normalized = NotNormalized(Null)

\* =================================================== ConnectionMonitor
MaxProbes == 2    \* fetches in flight, and simulated-connect timers pending

MAX_RECONNECT_ATTEMPTS == 5
RECONNECT_DELAY == 2000

Statuses == {"connected", "connecting", "disconnected", "error"}
\* latencies in ms: one in each band of the quality score, at its lower end
Latencies == {10, 50, 100, 200, 500, 1000}
\* Math.floor(Math.random() * 50) + 10, line 198
ConnectLatencies == {10, 50}
\* Math.floor(Math.random() * 30) + 10, line 204
RefreshLatencies == {10}

\* the ladder of updateQualityScore, lines 129-147
QualityOfInclusive(latency) ==
  IF latency <= 50 THEN 100
  ELSE IF latency <= 100 THEN 80
  ELSE IF latency <= 200 THEN 60
  ELSE IF latency <= 500 THEN 40
  ELSE IF latency <= 1000 THEN 20
  ELSE 10

QualityOf(latency) ==
  IF latency < 50 THEN 100
  ELSE IF latency < 100 THEN 80
  ELSE IF latency < 200 THEN 60
  ELSE IF latency < 500 THEN 40
  ELSE IF latency < 1000 THEN 20
  ELSE 10

\* getDefaultState(), lines 26-34
DefaultState ==
  [status |-> "disconnected", latency |-> 0, reconnectAttempts |-> 0,
   qualityScore |-> 0]

\* updateQualityScore(), lines 121-148
UpdateQualityScore(st) ==
  [st EXCEPT !.qualityScore = IF st.status # "connected" THEN 0
                              ELSE QualityOf(st.latency)]

\* updateStatus(status), lines 106-116
UpdateStatus(st, status) ==
  UpdateQualityScore(
    [st EXCEPT !.status = status,
               !.reconnectAttempts = IF status = "connected" THEN 0 ELSE @])

\* reconnectTimeout: the field is set, its timer is still to fire, the
\* delay it was armed with; superseded: forceReconnect() was called while
\* the timer was to fire
NoTimeout ==
  [set |-> FALSE, pending |-> FALSE, delay |-> 0, superseded |-> FALSE]

\* RECONNECT_DELAY * 2 ** reconnectAttempts, line 233
DelayLinear(attempts) == RECONNECT_DELAY * (attempts + 1)

Delay(attempts) == RECONNECT_DELAY * 2 ^ attempts

Monitor ==
  [state |-> monitorState, pingInterval |-> pingInterval,
   reconnectTimeout |-> reconnectTimeout, endpoint |-> mcpEndpoint,
   probes |-> probes, simTimers |-> simTimers, aged |-> aged,
   log |-> monitorLog]

ApplyMonitor(M) ==
  /\ monitorState' = M.state
  /\ pingInterval' = M.pingInterval
  /\ reconnectTimeout' = M.reconnectTimeout
  /\ mcpEndpoint' = M.endpoint
  /\ probes' = M.probes
  /\ simTimers' = M.simTimers
  /\ aged' = M.aged
  /\ monitorLog' = M.log

\* simulatePing(), lines 190-208; l is the latency drawn at line 204
SimulatePing(M, l) ==
  CASE M.state.status = "connecting" -> [M EXCEPT !.simTimers = @ + 1]
    [] M.state.status = "connected" ->
         [M EXCEPT !.state = UpdateQualityScore([@ EXCEPT !.latency = l])]
    [] OTHER -> M

\* ping() up to its await, lines 153-169
Ping(M, l) ==
  IF M.endpoint THEN [M EXCEPT !.probes = @ + 1] ELSE SimulatePing(M, l)

\* a ping() made now stays within the bound on what is in flight
CanPing(M) == M.probes < MaxProbes /\ M.simTimers < MaxProbes

\* scheduleReconnect(), lines 228-239
ScheduleReconnect(M) ==
  [M EXCEPT !.reconnectTimeout =
              [set |-> TRUE, pending |-> TRUE,
               delay |-> Delay(M.state.reconnectAttempts),
               superseded |-> FALSE],
            !.state.reconnectAttempts = @ + 1]

\* handlePingError(), lines 213-223
HandlePingErrorInclusive(M) ==
  IF M.state.reconnectAttempts <= MAX_RECONNECT_ATTEMPTS
  THEN ScheduleReconnect([M EXCEPT !.state = UpdateStatus(@, "connecting")])
  ELSE [M EXCEPT !.state = UpdateStatus(@, "error"), !.log.terminal = TRUE]

HandlePingError(M) ==
  IF M.state.reconnectAttempts < MAX_RECONNECT_ATTEMPTS
  THEN ScheduleReconnect([M EXCEPT !.state = UpdateStatus(@, "connecting")])
  ELSE [M EXCEPT !.state = UpdateStatus(@, "error"), !.log.terminal = TRUE]

\* stop(), lines 89-101
StopMonitor(M) ==
  [M EXCEPT !.pingInterval = FALSE,
            !.reconnectTimeout = IF @.set THEN NoTimeout ELSE @,
            !.state = UpdateStatus(@, "disconnected")]

\* monitorLog: stop() returned and no call was made on the monitor since;
\* the status became 'error' and no call was made since; the probes that
\* failed in a row since the last success or forceReconnect()
NoLog == [stopped |-> FALSE, terminal |-> FALSE, failures |-> 0]

\* of the fetches (or timers) in flight the oldest is over first
Settle1(n) == IF n > 0 THEN n - 1 ELSE 0

\* setEndpoint(endpoint), lines 63-65
SetEndpoint ==
  /\ ~mcpEndpoint
  /\ mcpEndpoint' = TRUE
  /\ UNCHANGED <<monitorState, pingInterval, reconnectTimeout, probes,
                 simTimers, aged, monitorLog, serviceVars, toolVars,
                 normalized>>

\* start(), lines 70-84
StartMonitor ==
  /\ ~pingInterval /\ CanPing(Monitor)
  /\ \E l \in RefreshLatencies :
       ApplyMonitor(
         [Ping([Monitor EXCEPT !.state = UpdateStatus(@, "connecting")], l)
            EXCEPT !.pingInterval = TRUE, !.log.stopped = FALSE,
                   !.log.terminal = FALSE])
  /\ UNCHANGED <<serviceVars, toolVars, normalized>>

Stop ==
  /\ ApplyMonitor([StopMonitor(Monitor) EXCEPT !.log.stopped = TRUE,
                                                !.log.terminal = FALSE])
  /\ monitorLog' # monitorLog \/ monitorState' # monitorState
       \/ pingInterval' # pingInterval \/ reconnectTimeout' # reconnectTimeout
  /\ UNCHANGED <<serviceVars, toolVars, normalized>>

\* forceReconnect(), lines 244-248
ForceReconnect ==
  /\ CanPing(Monitor)
  /\ \E l \in RefreshLatencies :
       ApplyMonitor(
         [Ping([Monitor EXCEPT
                  !.state = UpdateStatus([@ EXCEPT !.reconnectAttempts = 0],
                                         "connecting")], l)
            EXCEPT !.log = NoLog,
                   !.reconnectTimeout.superseded = Monitor.reconnectTimeout.pending])
  /\ UNCHANGED <<serviceVars, toolVars, normalized>>

\* updateFromExtension(status, latency), lines 253-261; latency 0 stands for
\* a call without one
UpdateFromExtension ==
  /\ \E status \in Statuses, latency \in Latencies \cup {0} :
       ApplyMonitor(
         [Monitor EXCEPT
            !.state = UpdateQualityScore(
               [@ EXCEPT !.status = status,
                         !.latency = IF latency # 0 THEN latency ELSE @]),
            !.log.terminal = FALSE, !.log.stopped = FALSE])
  /\ monitorState' # monitorState \/ monitorLog' # monitorLog
  /\ UNCHANGED <<serviceVars, toolVars, normalized>>

\* the interval of line 81 fires.  A fetch is aborted after PING_TIMEOUT
\* (5 s) and a simulated connect takes 500 ms, so nothing in flight at one
\* firing is still in flight at the next, 30 s later.
IntervalTick ==
  /\ pingInterval /\ CanPing(Monitor)
  /\ aged = [probes |-> 0, simTimers |-> 0]
  /\ \E l \in RefreshLatencies :
       ApplyMonitor(
         Ping([Monitor EXCEPT !.aged = [probes |-> Monitor.probes,
                                        simTimers |-> Monitor.simTimers]], l))
  /\ UNCHANGED <<serviceVars, toolVars, normalized>>

\* the timer armed by scheduleReconnect fires, lines 236-238
ReconnectFire ==
  /\ reconnectTimeout.pending /\ CanPing(Monitor)
  /\ \E l \in RefreshLatencies :
       ApplyMonitor(Ping([Monitor EXCEPT !.reconnectTimeout.pending = FALSE], l))
  /\ UNCHANGED <<serviceVars, toolVars, normalized>>

\* a fetch is answered with response.ok, lines 173-177
ProbeOk ==
  /\ probes > 0
  /\ \E latency \in Latencies :
       ApplyMonitor(
         [Monitor EXCEPT
            !.probes = @ - 1, !.aged.probes = Settle1(@),
            !.state = UpdateStatus([@ EXCEPT !.latency = latency], "connected"),
            !.log.failures = 0])
  /\ UNCHANGED <<serviceVars, toolVars, normalized>>

\* a fetch fails, is aborted after PING_TIMEOUT or is answered with an
\* error status, lines 178-184
ProbeFail ==
  /\ probes > 0
  /\ ApplyMonitor(
       [HandlePingError([Monitor EXCEPT !.probes = @ - 1,
                                        !.aged.probes = Settle1(@)])
          EXCEPT !.log.failures =
                   IF @ > MAX_RECONNECT_ATTEMPTS THEN @ ELSE @ + 1])
  /\ UNCHANGED <<serviceVars, toolVars, normalized>>

\* the 500 ms timer of simulatePing fires, lines 197-200
SimConnect ==
  /\ simTimers > 0
  /\ \E latency \in ConnectLatencies :
       ApplyMonitor(
         [Monitor EXCEPT
            !.simTimers = @ - 1, !.aged.simTimers = Settle1(@),
            !.state = UpdateStatus([@ EXCEPT !.latency = latency], "connected"),
            !.log.failures = 0])
  /\ UNCHANGED <<serviceVars, toolVars, normalized>>

MonitorNext ==
  \/ SetEndpoint
  \/ StartMonitor
  \/ Stop
  \/ ForceReconnect
  \/ UpdateFromExtension
  \/ IntervalTick
  \/ ReconnectFire
  \/ ProbeOk
  \/ ProbeFail
  \/ SimConnect

\* the singleton as constructed, lines 16-24
MonitorInit ==
  /\ monitorState = DefaultState
  /\ pingInterval = FALSE
  /\ reconnectTimeout = NoTimeout
  /\ mcpEndpoint = FALSE
  /\ probes = 0
  /\ simTimers = 0
  /\ aged = [probes |-> 0, simTimers |-> 0]
  /\ monitorLog = NoLog

\* ========================================================== port probe
Tests == 1..MaxTests

\* the variables of the components above, but for the ports others hold
coreVars == <<panelVars, reqs, managerVars, calls, toolVars, normalized,
              monVars>>

\* holders: what held the port when the testServer's bind was attempted
NoTest ==
  [port |-> AnyPort,
   st |-> "none",          \* none, listening, refused, closing, done
   bound |-> FALSE,        \* the testServer holds the port
   holders |-> {},         \* of "foreign", "http", "probe"
   answer |-> "none"]      \* resolved with "true" or "false"

HoldersOf(L, port) ==
  {h \in {"foreign"} : port \in foreign}
  \cup {h \in {"http"} : ListenerOn(L, port)}
  \cup {h \in {"probe"} : \E t \in Tests : /\ testServers[t].bound
                                          /\ testServers[t].port = port}

\* testServer.listen(port, '127.0.0.1'), line 1822: the bind is attempted
TestListen(L, port) ==
  [NoTest EXCEPT !.port = port, !.holders = HoldersOf(L, port),
                 !.bound = PortFree(L, port),
                 !.st = IF PortFree(L, port) THEN "listening" ELSE "refused"]

\* the 'listening' handler, lines 1816-1820: testServer.close(...)
TestResolvesBound(test) == [test EXCEPT !.st = "done", !.answer = "true"]

TestOnListening(test) == [test EXCEPT !.st = "closing", !.bound = FALSE]

\* the callback of close(), line 1818: resolve(true)
TestOnClose(test) == [test EXCEPT !.st = "done", !.answer = "true"]

\* the 'error' handler, lines 1812-1814: resolve(false)
TestOnError(test) == [test EXCEPT !.st = "done", !.answer = "false"]

\* checkPortAvailable(port) is called, lines 1808-1824
CheckPortAvailable(t) ==
  /\ testServers[t].st = "none"
  /\ \A j \in 1..(t - 1) : testServers[j].st # "none"
  /\ \E port \in Ports :
       testServers' = [testServers EXCEPT ![t] = TestListen(Life, port)]
  /\ UNCHANGED <<coreVars, foreign, autoSubmit, sessionManager>>

TestListening(t) ==
  /\ testServers[t].st = "listening"
  /\ testServers' = [testServers EXCEPT ![t] = TestOnListening(@)]
  /\ UNCHANGED <<coreVars, foreign, autoSubmit, sessionManager>>

TestClosed(t) ==
  /\ testServers[t].st = "closing"
  /\ testServers' = [testServers EXCEPT ![t] = TestOnClose(@)]
  /\ UNCHANGED <<coreVars, foreign, autoSubmit, sessionManager>>

TestError(t) ==
  /\ testServers[t].st = "refused"
  /\ testServers' = [testServers EXCEPT ![t] = TestOnError(@)]
  /\ UNCHANGED <<coreVars, foreign, autoSubmit, sessionManager>>

\* another process binds a port, or closes its listener
ForeignBind(port) ==
  /\ PortFree(Life, port)
  /\ foreign' = foreign \cup {port}
  /\ UNCHANGED <<coreVars, laterVars>>

ForeignRelease(port) ==
  /\ port \in foreign
  /\ foreign' = foreign \ {port}
  /\ UNCHANGED <<coreVars, laterVars>>

PortNext ==
  \/ \E t \in Tests : CheckPortAvailable(t)
  \/ \E t \in Tests : TestListening(t)
  \/ \E t \in Tests : TestClosed(t)
  \/ \E t \in Tests : TestError(t)
  \/ \E port \in Ports : ForeignBind(port)
  \/ \E port \in Ports : ForeignRelease(port)
  \/ \E c \in Calls : StartCall(c)
  \/ \E c \in Calls : StopCall(c)
  \/ \E c \in Calls : BindDone(c)

PortInit == testServers = [t \in Tests |-> NoTest]

\* ================================================= auto-submit manager
MaxTimeout == 86400

\* the timeouts start() is called with: two out of range, two in range
Timeouts == {0, 1, 2, MaxTimeout + 1}

\* getDefaultState(), lines 36-42
DefaultAutoState ==
  [isActive |-> FALSE, remainingSeconds |-> 0, isPaused |-> FALSE,
   triggeredBy |-> "none"]

\* no call of the submit callback yet
NoFire ==
  [by |-> "none",      \* tick, force
   timer |-> 0,        \* the interval whose tick made the call
   current |-> 0,      \* timerId when that tick, or forceSubmit, began
   remaining |-> 0,    \* remainingSeconds when submit() was called
   paused |-> FALSE]   \* isPaused when that tick, or forceSubmit, began

\* The manager after construction.  A countdown is known by the number of
\* its interval timer; timerId is 0 for null.
NewAutoSubmit ==
  [enabled |-> FALSE, promptTriggered |-> TRUE,
   state |-> DefaultAutoState,
   timerId |-> 0,
   intervals |-> {},            \* the interval timers not cleared
   starts |-> 0,                \* interval timers created so far
   onSubmitCallback |-> FALSE,  \* a callback is set (not null)
   fires |-> [g \in 1..MaxStarts |-> 0],   \* calls of the callback per
                                \*   countdown, by its tick or while it ran
   last |-> NoFire]             \* the last call of the callback

\* stop(), lines 186-194
AutoStopped(A) ==
  [A EXCEPT !.intervals = @ \ {A.timerId}, !.timerId = 0,
            !.state = DefaultAutoState]

\* submit(), lines 206-212, called by the tick of timer g or by forceSubmit
\* (g = 0); began records the manager when that tick or call began
AutoSubmitted(A, by, g, began) ==
  IF ~A.onSubmitCallback THEN AutoStopped(A)
  ELSE [AutoStopped(A) EXCEPT
          !.fires = LET c == IF by = "tick" THEN g ELSE began.timerId
                    IN  [k \in DOMAIN @ |-> IF k = c THEN @[k] + 1 ELSE @[k]],
          !.last = [by |-> by, timer |-> g, current |-> began.timerId,
                    remaining |-> A.state.remainingSeconds,
                    paused |-> began.state.isPaused]]

\* start(timeout, triggeredBy), lines 118-159
AutoStartKeepsTimer(A, timeout, triggeredBy) ==
  CASE ~A.enabled /\ triggeredBy # "manual" -> A
    [] triggeredBy = "prompt" /\ ~A.promptTriggered -> A
    [] timeout < 1 \/ timeout > MaxTimeout -> AutoStopped(A)
    [] OTHER ->
        [A EXCEPT !.state = [isActive |-> TRUE, remainingSeconds |-> timeout,
                             isPaused |-> FALSE, triggeredBy |-> triggeredBy],
                  !.timerId = A.starts + 1,
                  !.intervals = @ \cup {A.starts + 1},
                  !.starts = @ + 1]

AutoStarted(A, timeout, triggeredBy) ==
  CASE ~A.enabled /\ triggeredBy # "manual" -> A
    [] triggeredBy = "prompt" /\ ~A.promptTriggered -> A
    [] timeout < 1 \/ timeout > MaxTimeout -> AutoStopped(A)
    [] OTHER ->
        [AutoStopped(A) EXCEPT
           !.state = [isActive |-> TRUE, remainingSeconds |-> timeout,
                      isPaused |-> FALSE, triggeredBy |-> triggeredBy],
           !.timerId = A.starts + 1,
           !.intervals = @ \cup {A.starts + 1},
           !.starts = @ + 1]

\* the callback of setInterval, lines 145-155, for the interval timer g
AutoTicked(A, g) ==
  IF A.state.isPaused THEN A
  ELSE LET B == [A EXCEPT !.state.remainingSeconds = @ - 1]
       IN  IF B.state.remainingSeconds <= 0
           THEN AutoSubmitted(B, "tick", g, A)
           ELSE B

\* addTime(seconds), lines 224-233
AutoTimeAdded(A, seconds) ==
  IF ~A.state.isActive THEN A
  ELSE [A EXCEPT !.state.remainingSeconds =
          IF @ + seconds < MaxTimeout THEN @ + seconds ELSE MaxTimeout]

AutoFrame == UNCHANGED <<coreVars, foreign, testServers, sessionManager>>

\* updateSettings({enabled}) and updateSettings({promptTriggered})
AutoUpdateSettings ==
  /\ \E e, p \in BOOLEAN :
       /\ autoSubmit' = [autoSubmit EXCEPT !.enabled = e,
                                           !.promptTriggered = p]
       /\ autoSubmit' # autoSubmit
  /\ AutoFrame

\* setOnSubmit(callback)
AutoSetOnSubmit ==
  /\ ~autoSubmit.onSubmitCallback
  /\ autoSubmit' = [autoSubmit EXCEPT !.onSubmitCallback = TRUE]
  /\ AutoFrame

AutoStart ==
  /\ autoSubmit.starts < MaxStarts
  /\ \E timeout \in Timeouts, triggeredBy \in {"manual", "prompt"} :
       /\ autoSubmit' = AutoStarted(autoSubmit, timeout, triggeredBy)
       /\ autoSubmit' # autoSubmit
  /\ AutoFrame

\* pause(), lines 164-170
AutoPause ==
  /\ autoSubmit.state.isActive /\ ~autoSubmit.state.isPaused
  /\ autoSubmit' = [autoSubmit EXCEPT !.state.isPaused = TRUE]
  /\ AutoFrame

\* resume(), lines 175-181
AutoResume ==
  /\ autoSubmit.state.isActive /\ autoSubmit.state.isPaused
  /\ autoSubmit' = [autoSubmit EXCEPT !.state.isPaused = FALSE]
  /\ AutoFrame

\* stop() and cancel()
AutoStop ==
  /\ autoSubmit' = AutoStopped(autoSubmit)
  /\ autoSubmit' # autoSubmit
  /\ AutoFrame

\* forceSubmit(), lines 217-219
AutoForceSubmit ==
  /\ autoSubmit' = AutoSubmitted(autoSubmit, "force", 0, autoSubmit)
  /\ autoSubmit' # autoSubmit
  /\ AutoFrame

AutoAddTime ==
  /\ autoSubmit.state.remainingSeconds < MaxRemaining
  /\ autoSubmit' = AutoTimeAdded(autoSubmit, 1)
  /\ autoSubmit' # autoSubmit
  /\ AutoFrame

\* a second has passed for an interval timer that was not cleared
AutoTick(g) ==
  /\ g \in autoSubmit.intervals
  /\ autoSubmit' = AutoTicked(autoSubmit, g)
  /\ autoSubmit' # autoSubmit
  /\ AutoFrame

AutoNext ==
  \/ AutoUpdateSettings
  \/ AutoSetOnSubmit
  \/ AutoStart
  \/ AutoPause
  \/ AutoResume
  \/ AutoStop
  \/ AutoForceSubmit
  \/ AutoAddTime
  \/ \E g \in 1..MaxStarts : AutoTick(g)

AutoInit == autoSubmit = NewAutoSubmit

\* ===================================================== session manager
SessionIds == 1..MaxCreated
SessionStatuses == {"active", "paused", "completed", "expired"}

\* getDefaultStatistics(), lines 31-42: the three session counters
DefaultStatistics ==
  [totalSessions |-> 0, activeSessions |-> 0, completedSessions |-> 0]

\* The manager with nothing in storage.  sessions maps the id of a stored
\* session to its status; ids are handed out in order.
EmptySessionManager ==
  [sessions |-> [i \in {} |-> "active"],
   currentSessionId |-> 0,       \* 0 for null
   created |-> 0,
   statistics |-> DefaultStatistics]

\* createSession(...), lines 108-143
CreateSession(S) ==
  LET id == S.created + 1
  IN  [S EXCEPT !.sessions = [i \in DOMAIN @ \cup {id} |->
                                IF i = id THEN "active" ELSE @[i]],
                !.currentSessionId = id,
                !.created = id,
                !.statistics.totalSessions = @ + 1,
                !.statistics.activeSessions = @ + 1]

\* updateSessionStatus(id, status), lines 294-319
UpdateSessionStatus(S, id, status) ==
  IF id \notin DOMAIN S.sessions THEN S
  ELSE LET previousStatus == S.sessions[id]
           T == [S EXCEPT !.sessions[id] = status]
       IN  CASE status = "completed" /\ previousStatus = "active" ->
                  [T EXCEPT !.statistics.activeSessions = @ - 1,
                            !.statistics.completedSessions = @ + 1]
             [] status = "active" /\ previousStatus # "active" ->
                  [T EXCEPT !.statistics.activeSessions = @ + 1,
                            !.statistics.completedSessions =
                              IF previousStatus = "completed"
                              THEN @ - 1 ELSE @]
             [] OTHER -> T

\* completeAndCreateNew(...), lines 324-333
CompleteAndCreateNew(S) ==
  CreateSession(IF S.currentSessionId # 0
                THEN UpdateSessionStatus(S, S.currentSessionId, "completed")
                ELSE S)

\* deleteSession(id), lines 396-424
DeleteSession(S, id) ==
  IF id \notin DOMAIN S.sessions THEN S
  ELSE [S EXCEPT
          !.statistics.activeSessions =
             IF S.sessions[id] = "active" THEN @ - 1 ELSE @,
          !.statistics.completedSessions =
             IF S.sessions[id] = "completed" THEN @ - 1 ELSE @,
          !.statistics.totalSessions = @ - 1,
          !.sessions = [i \in DOMAIN @ \ {id} |-> @[i]],
          !.currentSessionId = IF @ = id THEN 0 ELSE @]

\* the counters stay in the range the model follows them through
CountersInRange(S) ==
  \A f \in DOMAIN S.statistics : S.statistics[f] \in -MaxCount..MaxCount

StoreFrame == UNCHANGED <<coreVars, foreign, testServers, autoSubmit>>

StoreCreate ==
  /\ sessionManager.created < MaxCreated
  /\ sessionManager' = CreateSession(sessionManager)
  /\ CountersInRange(sessionManager')
  /\ StoreFrame

StoreUpdateStatus ==
  /\ \E id \in SessionIds, status \in SessionStatuses :
       /\ sessionManager' = UpdateSessionStatus(sessionManager, id, status)
       /\ sessionManager' # sessionManager
  /\ CountersInRange(sessionManager')
  /\ StoreFrame

StoreCompleteAndCreateNew ==
  /\ sessionManager.created < MaxCreated
  /\ sessionManager' = CompleteAndCreateNew(sessionManager)
  /\ CountersInRange(sessionManager')
  /\ StoreFrame

StoreDelete ==
  /\ \E id \in DOMAIN sessionManager.sessions :
       sessionManager' = DeleteSession(sessionManager, id)
  /\ CountersInRange(sessionManager')
  /\ StoreFrame

StoreNext ==
  \/ StoreCreate
  \/ StoreUpdateStatus
  \/ StoreCompleteAndCreateNew
  \/ StoreDelete

StoreInit == sessionManager = EmptySessionManager

\* ======================================================= specifications
LaterInit == PortInit /\ AutoInit /\ StoreInit

\* no other process holds a port
Init ==
  PanelInit /\ RpcInit /\ LifeInit /\ ToolInit /\ NormInit /\ MonitorInit
  /\ LaterInit
  /\ foreign = {}

\* the confirmation sessions alone, opened by direct calls of show()
SpecPanel == Init /\ [][PanelNext]_vars

\* the 500 ms delay ends, and an armed 24 h timer fires unless it is cleared
FairPanel ==
  /\ SpecPanel
  /\ \A s \in Sessions : WF_vars(LoadDone(s))
  /\ \A s \in Sessions : WF_vars(Timeout(s))

\* the dispatcher with the sessions its confirmation calls open
RpcNext ==
  \/ \E k \in 1..MaxReq : Receive(k)
  \/ \E k \in 1..MaxReq : Complete(k)
  \/ \E s \in Sessions : LoadDone(s)
  \/ \E s \in Sessions : UserResponse(s)
  \/ \E s \in Sessions : AiOptimize(s)
  \/ \E s \in Sessions : PanelClosed(s)
  \/ \E s \in Sessions : Timeout(s)
SpecRpc == Init /\ [][RpcNext]_vars

\* the extension's activate() starts the HTTP server, index.ts line 83
Activate ==
  /\ calls[1].op = "none" /\ httpServer = 0
  /\ ApplyLife(StartHTTPServer(Life, 1, ExtensionPort))
  /\ calls' = [calls EXCEPT ![1] =
       AfterStart([NoCall EXCEPT !.op = "start", !.port = ExtensionPort],
                  FALSE)]
  /\ UNCHANGED <<envVars, panelVars, reqs>>

\* a POST reaches the listening server
HttpPost(k) ==
  /\ \E c \in Calls : servers[c].st = "listening"
  /\ Post(k)

\* the HTTP transport of the activated extension: POSTs and SSE streams
PostNext ==
  \/ Activate
  \/ \E c \in Calls : BindDone(c)
  \/ SseConnect
  \/ SseDisconnect
  \/ \E k \in 1..MaxReq : HttpPost(k)
  \/ \E k \in 1..MaxReq : Complete(k)
  \/ \E s \in Sessions : LoadDone(s)
  \/ \E s \in Sessions : UserResponse(s)
  \/ \E s \in Sessions : AiOptimize(s)
  \/ \E s \in Sessions : PanelClosed(s)
  \/ \E s \in Sessions : Timeout(s)
SpecPost == Init /\ [][PostNext]_vars

\* a suspended call resumes once its session has settled, the 500 ms delay
\* ends, and an armed timer fires unless it is cleared
FairRpc ==
  /\ SpecRpc
  /\ \A k \in 1..MaxReq : WF_vars(Complete(k))
  /\ \A s \in Sessions : WF_vars(LoadDone(s))
  /\ \A s \in Sessions : WF_vars(Timeout(s))

\* the lifecycle manager under overlapping calls, with any set of ports
\* held by other processes
InitLife ==
  /\ PanelInit /\ RpcInit /\ LifeInit /\ ToolInit /\ NormInit /\ MonitorInit
  /\ LaterInit
  /\ foreign \in SUBSET Ports
SpecLife == InitLife /\ [][LifeNext]_vars

\* the lifecycle manager observed through subscribeToServerState
ObsNext ==
  \/ LifeNext
  \/ \E u \in Listeners : Subscribe(u)
  \/ \E u \in Listeners : Unsubscribe(u)
SpecObs == InitLife /\ [][ObsNext]_vars

\* the tool registry and the handlers behind tools/list and tools/call
SpecTools == Init /\ [][ToolNext]_vars
SpecNames == Init /\ [][NamesNext]_vars

\* normalizeArgs applied, once and again, to each argument value
InitNorm ==
  /\ PanelInit /\ RpcInit /\ LifeInit /\ ToolInit /\ MonitorInit
  /\ LaterInit
  /\ foreign = {}
  /\ normalized \in {NotNormalized(v) : v \in ArgValues}
SpecNorm == InitNorm /\ [][NormNext]_vars

\* the connection monitor of the webview
SpecMonitor == Init /\ [][MonitorNext]_vars

\* checkPortAvailable beside the HTTP server and other processes
SpecPort == Init /\ [][PortNext]_vars

\* the auto-submit countdown of the webview
SpecAuto == Init /\ [][AutoNext]_vars

\* the session manager of the webview, starting with empty storage
SpecStore == Init /\ [][StoreNext]_vars

Next ==
  \/ PanelNext \/ RpcNext \/ PostNext \/ ObsNext \/ ToolNext \/ NamesNext
  \/ NormNext \/ MonitorNext \/ PortNext \/ AutoNext \/ StoreNext
Spec == InitLife /\ [][Next]_vars

\* =============================================================== claims
Settled(s) == sess[s].promise.st \in {"resolved", "rejected"}
Resolved(s) == sess[s].promise.st = "resolved"
Slots == 1..MaxReq

\* C1: once the handling of a request that carries an id is over, exactly
\* one response was produced for it, and that response carries its id.
EveryRequestAnswered ==
  \A k \in Slots :
    (reqs[k].st = "done" /\ reqs[k].request.id # NoId)
      => (Len(reqs[k].out) = 1 /\ reqs[k].out[1].id = reqs[k].request.id)

\* C2: a message without an id never gets a response, whatever its method.
NotificationsUnanswered ==
  \A k \in Slots :
    (reqs[k].st # "free" /\ reqs[k].request.id = NoId) => reqs[k].out = <<>>

\* C3: the result a session's promise delivers is the result of the first
\* resolution attempt made on the session, and when that attempt was a user
\* response or an AI-optimize request the promise's resolve ran exactly
\* once: the dispose() that follows it, the nested dispose() and the timer
\* add nothing.
FulfilledOnceByFirst ==
  \A s \in Sessions :
    Resolved(s) =>
      /\ sess[s].promise.val = sess[s].first.val
      /\ sess[s].first.by \in {"response", "optimize"}
           => (sess[s].resolveCalls = 1 /\ sess[s].timer = "cleared")

\* a session answered "continue" by its user, after which it was disposed
AnsweredThenDisposed ==
  \E s \in Sessions :
    /\ sess[s].first.by = "response" /\ Resolved(s)
    /\ sess[s].promise.val.shouldContinue
    /\ sess[s].disposed /\ ~sess[s].resolvePromise

\* C4: a session that show() has registered and that is no longer in the
\* live panel map has its caller's promise resolved; it is never pending.
NoOrphanedPromise ==
  \A s \in Sessions :
    (sess[s].phase # "none" /\ s \notin panels) => Resolved(s)

\* C5: a step that touches one session leaves every other session's panel,
\* timer, promise and membership of the live map as they were, and a caller
\* whose session was answered holds exactly the answer given to that session.
NoCrossTalk ==
  /\ [](\A s \in Sessions :
          sess[s].first.by \in {"response", "optimize"}
            => sess[s].promise = [st |-> "resolved", val |-> sess[s].first.val])
  /\ [][\A s \in Sessions :
          (sess'[s] # sess[s] \/ ((s \in panels') # (s \in panels)))
            => \A u \in Sessions \ {s} :
                 sess'[u] = sess[u] /\ ((u \in panels') <=> (u \in panels))]_vars

\* the later session was answered while the earlier one is still open
AnsweredOutOfOrder ==
  \E s, u \in Sessions :
    /\ s < u
    /\ sess[u].first.by = "response" /\ Resolved(u)
    /\ sess[u].promise.val.shouldContinue
    /\ s \in panels /\ sess[s].phase = "waiting"
    /\ sess[s].promise.st = "pending" /\ sess[s].timer = "armed"

RestartsSerialized ==
  \A c \in Calls :
    (calls[c].op = "restart" /\ calls[c].result = "ok")
      => \E i \in 1..Len(notified) :
           /\ notified[i].isRunning
           /\ notified[i].transport = "http"
           /\ notified[i].port = calls[c].port

\* C8: a failed bind leaves the manager stopped: the server whose bind
\* failed is not retained in httpServer.
FailedBindLeavesStopped ==
  \A c \in Calls : servers[c].st = "failed" => httpServer # c

\* C9: a startHTTPServer call made while the server is running resolves at
\* once and changes neither the listener, ServerState, the SSE subscribers
\* nor what the state subscribers were told.
StartIdempotent ==
  [][\A c \in Calls :
       (/\ Begins(c) /\ calls'[c].op = "start"
        /\ currentServerState.isRunning /\ httpServer # 0)
         => /\ calls'[c].result = "ok"
            /\ UNCHANGED <<httpServer, servers, currentServerState,
                           sseClients, notified>>]_vars

\* a start that found the server running, with an SSE subscriber connected
StartedWhileRunning ==
  \E c \in Calls :
    /\ calls[c].op = "start" /\ calls[c].shortcut /\ calls[c].result = "ok"
    /\ currentServerState.isRunning /\ currentServerState.transport = "http"
    /\ httpServer # 0 /\ servers[httpServer].st = "listening"
    /\ sseClients # {}

\* C10: switchTransport('http' | 'auto', port) goes on to restart only after
\* checkPortAvailable(port) answered true in that call, or when an HTTP
\* listener of this process was bound to exactly that port.
SwitchVerifiesPort ==
  \A c \in Calls :
    (calls[c].op = "switchHttp" /\ calls[c].restarted)
      => (calls[c].verified \/ calls[c].wasBound)

\* C11: switchTransport('stdio') called while the manager's HTTP server is
\* listening on a port P succeeds, closes that listener so that P can be
\* bound again, leaves no SSE stream registered or open, installs the stdin
\* line handler and sets ServerState to running / stdio / port 0.
SwitchToStdioStopsHttp ==
  [][\A c \in Calls :
       (Begins(c) /\ calls'[c].op = "switchStdio" /\ Listening(Life))
         => /\ calls'[c].result = "ok"
            /\ servers'[httpServer].st = "closed"
            /\ servers[httpServer].port \notin foreign
            /\ \A d \in Calls :
                 ~(/\ servers'[d].st = "listening"
                   /\ servers'[d].port = servers[httpServer].port)
            /\ httpServer' = 0
            /\ sseClients' = {} /\ sseOpen' = {}
            /\ stdioHandlers' = stdioHandlers + 1
            /\ currentServerState' =
                 [isRunning |-> TRUE, transport |-> "stdio", port |-> AnyPort,
                  startedAt |-> TRUE, error |-> FALSE]]_vars

\* a switch to stdio made while HTTP was listening with an SSE subscriber
SwitchedToStdio ==
  \E c \in Calls :
    /\ calls[c].op = "switchStdio" /\ calls[c].wasBound
    /\ calls[c].clients > 0
    /\ currentServerState.transport = "stdio" /\ stdioHandlers > 0

\* C12: a stopHTTPServer call made while a server is held ends every
\* registered SSE stream before close() is called on the listener, and
\* leaves no subscriber, no handle and ServerState stopped with clientCount
\* 0; a call made while no server is held changes nothing.
StopClearsSubscribers ==
  [][\A c \in Calls :
       (Begins(c) /\ calls'[c].op = "stop")
         => IF httpServer # 0
            THEN /\ servers'[httpServer].openAtClose = 0
                 /\ servers'[httpServer].st # "listening"
                 /\ sseClients' = {} /\ sseOpen' = {}
                 /\ httpServer' = 0
                 /\ ~currentServerState'.isRunning
                 /\ Len(notified') = Len(notified) + 1
                 /\ notified'[Len(notified')].clientCount = 0
                 /\ ~notified'[Len(notified')].isRunning
            ELSE UNCHANGED managerVars]_vars

\* a stop of a listening server that had an SSE subscriber
StoppedWithSubscribers ==
  \E c \in Calls :
    /\ calls[c].op = "stop" /\ calls[c].wasBound /\ calls[c].clients > 0
    /\ httpServer = 0 /\ sseClients = {}

SubscribersSeeEveryChange ==
  \A u \in Listeners :
    /\ delivered[u].sub = "on"
         => (delivered[u].n > 0 /\ delivered[u].last = GetServerState(Life))
    /\ delivered[u].sub = "off" => delivered[u].n = delivered[u].nAtUnsub

\* the events written to stream c include the answer to slot k
Got(c, k) == \E i \in 1..Len(sseEvents[c]) : sseEvents[c][i] = k

\* C15: when a POST is answered with a response, one 'message' event is
\* written to every SSE stream registered at that moment and to no other;
\* answering a notification or an unparsable body writes to no stream; and
\* a stream that registers later starts without any earlier event.
BroadcastOncePerResponse ==
  [][/\ \A k \in Slots :
          (/\ reqs[k].st # "done" /\ reqs'[k].st = "done"
           /\ reqs'[k].transport = "http")
            => /\ (reqs'[k].status = 200 /\ reqs'[k].out # <<>>)
                    => \A c \in 1..MaxClients :
                         sseEvents'[c] = IF c \in sseClients
                                         THEN Append(sseEvents[c], k)
                                         ELSE sseEvents[c]
               /\ (reqs'[k].line # "json" \/ reqs'[k].request.id = NoId)
                    => sseEvents' = sseEvents
     /\ \A c \in 1..MaxClients :
          (c \notin sseClients /\ c \in sseClients') => sseEvents'[c] = <<>>]_vars

\* slot j holds an stdin line that is malformed or blank, or whose handling
\* is suspended on its session
Troubled(j) ==
  /\ reqs[j].transport = "stdio"
  /\ reqs[j].line \in {"malformed", "blank"} \/ reqs[j].st = "awaiting"

\* C16: a well-formed request line with an id that arrived on stdin after a
\* malformed line, a blank line or a line whose handling is still suspended
\* has been answered, with its id, once its own handling is over.
LaterLinesAnswered ==
  \A k \in Slots :
    (/\ reqs[k].st = "done" /\ reqs[k].transport = "stdio"
     /\ reqs[k].line = "json" /\ reqs[k].request.id # NoId
     /\ \E j \in 1..(k - 1) : Troubled(j))
      => (Len(reqs[k].out) = 1 /\ reqs[k].out[1].id = reqs[k].request.id)

\* C17: a POST whose body JSON.parse rejects is answered with status 400 and
\* the -32700 envelope, the dispatcher is not called, nothing is broadcast
\* and no session is opened; the server keeps listening and takes the next
\* POST.
ParseErrorAnswered ==
  \A k \in Slots :
    (reqs[k].st # "free" /\ reqs[k].transport = "http"
       /\ reqs[k].line = "malformed")
      => /\ reqs[k].st = "done"
         /\ reqs[k].status = 400
         /\ reqs[k].out = <<ErrorResponse(NoId, -32700, "Parse error")>>
         /\ ~reqs[k].dispatched
         /\ ~reqs[k].broadcast /\ \A c \in 1..MaxClients : ~Got(c, k)
         /\ reqs[k].session = 0
         /\ \E c \in Calls : servers[c].st = "listening"
         /\ (k < MaxReq /\ reqs[k + 1].st = "free") => ENABLED HttpPost(k + 1)

\* an unparsable POST made while an SSE stream was registered, and after it
\* a request that was answered and broadcast to that stream
ServedAfterParseError ==
  \E k, j \in Slots :
    /\ k < j
    /\ reqs[k].transport = "http" /\ reqs[k].line = "malformed"
    /\ reqs[k].status = 400
    /\ reqs[j].transport = "http" /\ reqs[j].line = "json"
    /\ reqs[j].status = 200 /\ reqs[j].request.id = j
    /\ Len(reqs[j].out) = 1 /\ reqs[j].out[1].kind = "result"
    /\ \E c \in sseClients : sseEvents[c] = <<j>>

\* C18: a message with a method the dispatcher does not handle is answered
\* with exactly one -32601 error carrying its id when it has an id, and with
\* no JSON-RPC message, written or broadcast, when it has none.
UnknownMethodRejected ==
  \A k \in Slots :
    (/\ reqs[k].st = "done" /\ reqs[k].line = "json"
     /\ reqs[k].request.method = "unknown")
      => IF reqs[k].request.id # NoId
         THEN reqs[k].out =
                <<ErrorResponse(reqs[k].request.id, -32601, "Unknown method")>>
         ELSE reqs[k].out = <<>> /\ ~reqs[k].broadcast

\* an unknown method without an id on stdin, and one with an id over HTTP
UnknownMethodSeen ==
  \E k, j \in Slots :
    /\ reqs[k].st = "done" /\ reqs[k].line = "json"
    /\ reqs[k].transport = "stdio"
    /\ reqs[k].request.method = "unknown" /\ reqs[k].request.id = NoId
    /\ reqs[j].st = "done" /\ reqs[j].line = "json"
    /\ reqs[j].transport = "http"
    /\ reqs[j].request.method = "unknown" /\ reqs[j].request.id = j
    /\ Len(reqs[j].out) = 1 /\ reqs[j].out[1].code = -32601

\* the message of the failure raised while slot k's request was handled,
\* "" when none was
FailureOf(slot) ==
  CASE slot.request.tool = "noParams" -> TypeErrorMessage
    [] slot.request.tool = "unknownTool" -> UnknownToolMessage
    [] slot.session # 0 /\ sess[slot.session].promise.st = "rejected" ->
         PopupFailedMessage
    [] OTHER -> ""

\* C19: a request with an id whose handling raised a failure is answered
\* with exactly one -32603 error carrying its id and the failure's message,
\* and the dispatcher takes the next message.
FailuresReported ==
  \A k \in Slots :
    (/\ reqs[k].st = "done" /\ reqs[k].line = "json"
     /\ reqs[k].request.id # NoId /\ FailureOf(reqs[k]) # "")
      => /\ reqs[k].out =
              <<ErrorResponse(reqs[k].request.id, -32603, FailureOf(reqs[k]))>>
         /\ (k < MaxReq /\ reqs[k + 1].st = "free") => ENABLED Receive(k + 1)

\* a confirmation call failed because its panel was closed while loading,
\* and the request after it was answered with a result
AnsweredAfterFailure ==
  \E k, j \in Slots :
    /\ k < j
    /\ reqs[k].st = "done" /\ reqs[k].request.id = k
    /\ reqs[k].session # 0 /\ FailureOf(reqs[k]) = PopupFailedMessage
    /\ Len(reqs[k].out) = 1 /\ reqs[k].out[1].code = -32603
    /\ reqs[j].st = "done" /\ reqs[j].request.id = j
    /\ Len(reqs[j].out) = 1 /\ reqs[j].out[1].kind = "result"

\* C20: a tools/call that names no tool of the server is answered with a
\* -32601-class tool-call failure, never with the internal error -32603.
UnknownToolIsToolError ==
  \A k \in Slots :
    (/\ reqs[k].st = "done" /\ reqs[k].line = "json"
     /\ reqs[k].request.tool = "unknownTool" /\ reqs[k].request.id # NoId)
      => /\ Len(reqs[k].out) = 1
         /\ reqs[k].out[1].code # -32603
         /\ reqs[k].out[1].code = -32601 \/ reqs[k].out[1].kind = "result"

\* a finished tools/call that was routed to the prompt refiner or the input
\* bridge with the argument the tool requires, made while the tool's handler
\* was not set
UnwiredCall ==
  /\ lastTool.op = "call"
  /\ lastTool.route \in {"promptRefiner", "inputBridge"}
  /\ ~lastTool.wired
  /\ lastTool.route = "promptRefiner" => lastTool.args.prompt
  /\ lastTool.route = "inputBridge" => lastTool.args.content

\* C21 as stated: every such call returns a result whose text reports the
\* service as not configured.
UnwiredReportsNotConfigured ==
  UnwiredCall
    => /\ lastTool.st = "done"
       /\ lastTool.outcome = Return("not configured")
       /\ lastTool.response = Respond(ResultResponse(lastTool.id, Body("tool")))

\* C21, amended: every such call returns at once with a normal JSON-RPC
\* result, never an error; the text reports the service as not configured
\* whenever the call gets as far as the handler, which is always for the
\* input bridge, and for the prompt refiner when no optimized_prompt was
\* supplied and the environment is not Windsurf.
UnwiredIsResult ==
  UnwiredCall
    => /\ lastTool.st = "done"
       /\ lastTool.outcome.do = "return"
       /\ lastTool.response = Respond(ResultResponse(lastTool.id, Body("tool")))
       /\ (\/ lastTool.route = "inputBridge"
           \/ ~lastTool.args.optimized_prompt /\ ~lastTool.windsurf)
            => lastTool.outcome = Return("not configured")

\* the prompt refiner called by its rotated name after its handler was
\* cleared, while the fill handler is still set
CalledAfterClear ==
  /\ UnwiredCall /\ lastTool.route = "promptRefiner"
  /\ lastTool.name = NamesOf(randomizedToolNames).promptRefiner
  /\ lastTool.id # NoId
  /\ lastTool.outcome = Return("not configured")
  /\ ~customPromptOptimizerHandler /\ customFillInputHandler

\* C22: a confirmation call has no response while its session is unsettled;
\* a result response comes after the session resolved, and its text carries
\* the shouldContinue the session resolved with (the user's, when the user
\* answered first) and, when that is true and an instruction was given, the
\* instruction.
ConfirmationCarriesResult ==
  \A k \in Slots :
    reqs[k].session # 0 =>
      LET s == reqs[k].session
          val == sess[s].promise.val
      IN  /\ reqs[k].out # <<>> => (Settled(s) /\ reqs[k].st = "done")
          /\ \A i \in 1..Len(reqs[k].out) :
               reqs[k].out[i].kind = "result" =>
                 /\ Resolved(s)
                 /\ reqs[k].out[i].body.what = "checkpoint"
                 /\ reqs[k].out[i].body.shouldContinue = val.shouldContinue
                 /\ sess[s].first.by = "response" =>
                      reqs[k].out[i].body.shouldContinue
                        = sess[s].first.val.shouldContinue
                 /\ (val.shouldContinue /\ val.userInstruction # "none") =>
                      reqs[k].out[i].body.userInstruction = val.userInstruction

\* the user answered "continue" with an instruction and the call's response
\* carries both
ContinuedWithInstruction ==
  \E k \in Slots :
    /\ reqs[k].session # 0 /\ reqs[k].st = "done" /\ reqs[k].request.id = k
    /\ sess[reqs[k].session].first =
         [by |-> "response",
          val |-> [shouldContinue |-> TRUE, userInstruction |-> "text"]]
    /\ Len(reqs[k].out) = 1 /\ reqs[k].out[1].kind = "result"
    /\ reqs[k].out[1].body =
         [what |-> "checkpoint", shouldContinue |-> TRUE,
          userInstruction |-> "text"]

\* the rotated name and the legacy aliases a resolver is to accept under the
\* rotation built from pair p
Accepted(resolver, p) ==
  CASE resolver = "checkpoint" ->
         {<<"_confirm_", p>>, <<"windsurf-endless", 0>>,
          <<"session_checkpoint", 0>>}
    [] resolver = "promptRefiner" ->
         {<<"_optimize_", p>>, <<"optimize_prompt", 0>>,
          <<"prompt_refiner", 0>>}
    [] OTHER ->
         {<<"_fill_", p>>, <<"fill_cascade_input", 0>>, <<"input_bridge", 0>>}

\* C23: whenever a resolver is called, before the first generation, after
\* it or after a reset, it answers true exactly for the rotated name of the
\* rotation in force when it returns and for its legacy aliases; a call
\* that finds names generated keeps them, one that finds none generates them.
ResolversAcceptCurrentAndLegacy ==
  /\ [](lastTool.op = "resolve"
          => /\ lastTool.pair \in Pairs
             /\ lastTool.answer
                  <=> lastTool.name \in Accepted(lastTool.resolver, lastTool.pair))
  /\ [][(/\ lastTool'.op = "resolve" /\ lastTool' # lastTool
         /\ lastTool'.resetSince = lastTool.resetSince)
          => /\ randomizedToolNames' = lastTool'.pair
             /\ lastTool'.generated <=> randomizedToolNames = 0
             /\ randomizedToolNames # 0
                  => randomizedToolNames' = randomizedToolNames]_vars

\* after a reset the names were generated anew, and the checkpoint resolver
\* rejects the rotated name that tools/list had shown before the reset
OldNameRejected ==
  /\ lastTool.op = "resolve" /\ lastTool.resolver = "checkpoint"
  /\ lastTool.resetSince /\ lastTool.listedPair # 0
  /\ lastTool.pair # lastTool.listedPair
  /\ lastTool.name = NamesOf(lastTool.listedPair).checkpoint
  /\ ~lastTool.answer

\* C24: every tools/list response holds exactly three tools with distinct
\* names and a non-empty required list, named after the rotation in force
\* when the list returns: the names of the previous list when no reset came
\* between, the names already generated when there are some, newly generated
\* ones otherwise; and a tools/call that uses a listed name, no reset having
\* come between, is routed to that tool.
ListShowsCurrentRotation ==
  /\ [](lastTool.listedPair # 0 =>
          /\ Len(lastTool.tools) = 3
          /\ \A i \in 1..3 : lastTool.tools[i].required # <<>>
          /\ \A i, j \in 1..3 :
               i # j => lastTool.tools[i].name # lastTool.tools[j].name
          /\ lastTool.tools[1].name = <<"_confirm_", lastTool.listedPair>>
          /\ lastTool.tools[2].name = <<"_optimize_", lastTool.listedPair>>
          /\ lastTool.tools[3].name = <<"_fill_", lastTool.listedPair>>)
  /\ [](lastTool.listedPair = 0 => lastTool.tools = <<>>)
  /\ [][(lastTool'.op = "list" /\ ~lastTool'.resetSince)
          => /\ lastTool'.listedPair = randomizedToolNames'
             /\ lastTool'.listedPair \in Pairs
             /\ (lastTool.listedPair # 0 /\ ~lastTool.resetSince)
                  => lastTool'.tools = lastTool.tools
             /\ randomizedToolNames # 0
                  => lastTool'.listedPair = randomizedToolNames
             /\ (randomizedToolNames = 0 /\ lastTool' # lastTool)
                  => lastTool'.generated]_vars
  /\ [](\A i \in 1..3 :
          (/\ lastTool.op = "call" /\ lastTool.listedPair # 0
           /\ ~lastTool.resetSince /\ lastTool.name = lastTool.tools[i].name)
            => lastTool.route
                 = <<"checkpoint", "promptRefiner", "inputBridge">>[i])

\* the names of the rotation in force were listed, and the listed name of
\* the prompt refiner was then called
ListedNameCalled ==
  /\ lastTool.op = "call" /\ lastTool.st = "done"
  /\ lastTool.listedPair = MaxPairs /\ ~lastTool.resetSince
  /\ randomizedToolNames = lastTool.listedPair
  /\ lastTool.name = lastTool.tools[2].name
  /\ lastTool.route = "promptRefiner" /\ lastTool.args.prompt

\* C25: normalizeArgs returns an object for every argument value, and
\* normalizing its result again changes nothing.
NormalizeIdempotent ==
  /\ normalized.st # "given" => IsObject(normalized.once)
  /\ normalized.st = "twice" => normalized.twice = normalized.once

\* C26: once the retries are exhausted and the status is 'error', it stays
\* 'error' until forceReconnect() (or another call on the monitor) is made:
\* no outcome of a probe changes it.
ErrorIsTerminal == monitorLog.terminal => monitorState.status = "error"

\* C27: from the return of stop() to the next call made on the monitor the
\* status is 'disconnected', no reconnect timer is pending, and no step
\* issues a probe, arms a timer or changes the status.
StopCancelsAll ==
  /\ [](monitorLog.stopped
          => /\ monitorState.status = "disconnected"
             /\ ~reconnectTimeout.pending /\ ~pingInterval)
  /\ [][(monitorLog.stopped /\ monitorLog'.stopped)
          => /\ probes' <= probes /\ simTimers' <= simTimers
             /\ ~reconnectTimeout'.pending
             /\ monitorState'.status = "disconnected"]_vars

\* C28: a reconnect timer that was pending when forceReconnect() was called
\* is cleared by the call: no such timer is still to fire.
ForceClearsBackoff == ~(reconnectTimeout.pending /\ reconnectTimeout.superseded)

\* a fetch was answered in this step, with a failure or with success
ProbeFailed == probes' < probes /\ monitorState'.status # "connected"
ProbeSucceeded == probes' < probes /\ monitorState'.status = "connected"

\* C29: the k-th failed probe in a row since the last success or
\* forceReconnect() (k = 0, 1, ...) arms the timer of the next probe with
\* 2 s, 4 s, 8 s, 16 s, 32 s for k below 5 and sets 'connecting'; from k = 5
\* on a failure arms nothing and sets 'error'; a success resets the count,
\* which reconnectAttempts follows up to 5.
BackoffDoubles ==
  /\ [](monitorState.reconnectAttempts
          = IF monitorLog.failures < 5 THEN monitorLog.failures ELSE 5)
  /\ [][ProbeFailed =>
          LET k == monitorLog.failures
          IN  IF k < 5
              THEN /\ reconnectTimeout'.pending /\ reconnectTimeout'.set
                   /\ reconnectTimeout'.delay
                        = <<2000, 4000, 8000, 16000, 32000>>[k + 1]
                   /\ monitorState'.status = "connecting"
                   /\ monitorLog'.failures = k + 1
              ELSE /\ reconnectTimeout' = reconnectTimeout
                   /\ monitorState'.status = "error"]_vars
  /\ [][ProbeSucceeded =>
          (monitorLog'.failures = 0 /\ monitorState'.reconnectAttempts = 0)]_vars

\* six probes failed in a row: the last timer was armed with 32 s, it has
\* fired, and the status is 'error'
RetriesExhausted ==
  /\ monitorLog.failures = 6 /\ monitorLog.terminal
  /\ monitorState.status = "error" /\ monitorState.reconnectAttempts = 5
  /\ reconnectTimeout.delay = 32000 /\ ~reconnectTimeout.pending

\* C30: qualityScore is 0 unless the status is 'connected', and then it is
\* 100, 80, 60, 40, 20 or 10 for a latency below 50, 100, 200, 500, 1000 ms
\* or not below 1000 ms.
QualityFollowsLatency ==
  monitorState.qualityScore =
    CASE monitorState.status # "connected" -> 0
      [] monitorState.latency < 50 -> 100
      [] monitorState.latency \in 50..99 -> 80
      [] monitorState.latency \in 100..199 -> 60
      [] monitorState.latency \in 200..499 -> 40
      [] monitorState.latency \in 500..999 -> 20
      [] OTHER -> 10

\* connected with a latency of exactly 1000 ms after a probe had failed
SlowButConnected ==
  /\ monitorState.status = "connected" /\ monitorState.latency = 1000
  /\ monitorState.qualityScore = 10
  /\ reconnectTimeout.set


\* C31: checkPortAvailable(p) resolves true when nothing held p as its
\* testServer tried to bind and false when another process, this server's
\* HTTP listener or another probe held it; when it resolves, and ever
\* after, its testServer does not hold p.
ProbeAnswersAndReleases ==
  \A t \in Tests :
    /\ testServers[t].answer = "true" => testServers[t].holders = {}
    /\ testServers[t].answer = "false" => testServers[t].holders # {}
    /\ testServers[t].st = "done" =>
         /\ testServers[t].answer \in {"true", "false"}
         /\ ~testServers[t].bound

\* one probe was answered false on the port this server listens on, and
\* another was answered true
ProbedBothWays ==
  \E t, u \in Tests :
    /\ testServers[t].answer = "false" /\ testServers[t].holders = {"http"}
    /\ testServers[u].answer = "true"


SubMapKeys(args) ==
  {k \in {"input", "arguments"} \cap DOMAIN args.kids : args.kids[k].t = "map"}

\* C33: for a map with a nested map under input, under arguments or under
\* both, normalizeArgs returns a map that has every key of each such
\* sub-map with a sub-map's value, and every other top-level key as it was.
NestedKeysMerged ==
  LET args == normalized.arg
      out == normalized.once
      subs == SubMapKeys(args)
  IN  (normalized.st # "given" /\ args.t = "map" /\ subs # {}) =>
        /\ out.t = "map"
        /\ \A k \in subs : \A j \in DOMAIN args.kids[k].kids :
             /\ j \in DOMAIN out.kids
             /\ \E i \in subs : /\ j \in DOMAIN args.kids[i].kids
                                /\ out.kids[j] = args.kids[i].kids[j]
        /\ \A j \in DOMAIN args.kids :
             (\A k \in subs : j \notin DOMAIN args.kids[k].kids) =>
               (j \in DOMAIN out.kids /\ out.kids[j] = args.kids[j])


\* C34: every line written to standard output while a tools/list or
\* tools/call request read from stdin is handled is a JSON-RPC response or
\* error.
StdoutIsProtocolOnly ==
  lastTool.op \in {"list", "call"} =>
    \A i \in DOMAIN lastTool.stdout : lastTool.stdout[i] = "jsonrpc"


\* C35: at most one 'line' handler reads stdin, so a line is dispatched
\* once; there is exactly one while the transport is stdio and none while
\* the HTTP transport runs.
OneStdioHandler ==
  /\ stdioHandlers <= 1
  /\ currentServerState.transport = "stdio" => stdioHandlers = 1
  /\ (currentServerState.transport = "http" /\ currentServerState.isRunning)
       => stdioHandlers = 0


\* C36: at the moment a startHTTPServer call resolves, whether after its
\* own bind or through the 'already running' exit, an HTTP listener is
\* bound and ServerState.isRunning is true.
StartResolvesBound ==
  [][\A c \in Calls :
       (/\ calls'[c].op = "start"
        /\ calls'[c].result = "ok" /\ calls[c].result # "ok")
         => /\ \E k \in Calls : servers'[k].st = "listening"
            /\ currentServerState'.isRunning]_vars


\* C37: start() called on a monitor that stop() has stopped, and that is
\* still 'disconnected', begins with reconnectAttempts = 0.
RestartIsFresh ==
  [][(/\ monitorLog.stopped /\ monitorState.status = "disconnected"
      /\ ~pingInterval /\ pingInterval')
       => monitorState'.reconnectAttempts = 0]_vars

\* C40: reconnectAttempts is between 0 and MAX_RECONNECT_ATTEMPTS (5).
AttemptsBounded == monitorState.reconnectAttempts \in 0..5

\* the fifth backoff probe is scheduled while an earlier probe is still in
\* flight
LastRetryScheduled ==
  /\ monitorState.reconnectAttempts = 5
  /\ monitorState.status = "connecting"
  /\ reconnectTimeout.pending /\ probes > 0


\* C38: the submit callback is called at most once per started countdown;
\* a tick calls it only when it takes remainingSeconds to 0 while not
\* paused, and only the tick of the countdown that is current: a countdown
\* stopped, cancelled or replaced by a newer start() has no timer left.
SubmitOncePerCountdown ==
  /\ \A g \in 1..MaxStarts : autoSubmit.fires[g] <= 1
  /\ autoSubmit.intervals =
       IF autoSubmit.state.isActive THEN {autoSubmit.timerId} ELSE {}
  /\ autoSubmit.timerId \in 0..autoSubmit.starts
  /\ autoSubmit.state.isActive <=> autoSubmit.timerId # 0
  /\ autoSubmit.last.by = "tick" =>
       /\ autoSubmit.last.remaining = 0
       /\ ~autoSubmit.last.paused
       /\ autoSubmit.last.timer # 0
       /\ autoSubmit.last.timer = autoSubmit.last.current

\* a first countdown was replaced or stopped without a submit, and the
\* tick of the second one submitted
SecondCountdownSubmitted ==
  /\ autoSubmit.fires[1] = 0 /\ autoSubmit.fires[2] = 1
  /\ autoSubmit.last.by = "tick" /\ autoSubmit.last.timer = 2


\* C39: the statistics count the stored sessions: all of them, the active
\* ones and the completed ones.
StatisticsMatchSessions ==
  LET S == sessionManager
      Count(s) == Cardinality({i \in DOMAIN S.sessions : S.sessions[i] = s})
  IN  /\ S.statistics.totalSessions = Cardinality(DOMAIN S.sessions)
      /\ S.statistics.activeSessions = Count("active")
      /\ S.statistics.completedSessions = Count("completed")

====
